---- MODULE Spec2Model ----
(***************************************************************************)
(* Model of the live-synchronisation engine of ParsFood-Common:            *)
(*   - FirestoreCollectionsModule (ref-counted sync per collection path,   *)
(*     debounced teardown, restart on options change, stream errors);      *)
(*   - subscribeToCollection / updateCollectionFromSnapshot /              *)
(*     applyCollectionChanges of js/firestore-utils.ts.                    *)
(* JavaScript runs one callback at a time, so every handler is one action; *)
(* the stream-error handler is split at the points where it calls back     *)
(* into caller code (subscriber.onError), and an options change is split   *)
(* into the change itself and the run of each queued watcher callback.     *)
(***************************************************************************)
EXTENDS Integers, Sequences, FiniteSets, TLC

\* ---------------------------------------------------------------- bounds
MaxSubs == 3      \* sync() calls explored (subscribers created)
MaxTimers == 2    \* debounce timers pending at once
MaxListeners == 2 \* top-level listener handles in use at once
MaxWatchers == 3  \* options-watcher handles in use at once
MaxLen == 2       \* documents in a mirrored list
MaxDiffLen == 3   \* documents in a list of the diff specification
MaxChanges == 2   \* document changes in one event of the diff specification

Paths == {"users"}
DocIds == {"a", "b"}
SubIds == {"x"}
DiffIds == {"a", "b", "c"}
Vals == {0, 1}    \* field values of the documents of the diff specification
StreamVals == {0} \* field value of the documents the change stream reports

\* Effective options of a path as mapCollectionOptions may return them: the
\* collection with one configured subcollection "s" (normalised form).
SubOptions == [collectionPath |-> "s", name |-> "s", subcollections |-> <<>>]
PathOptions(p) == [collectionPath |-> p, name |-> p, subcollections |-> <<SubOptions>>]

VARIABLES
    collections,      \* @State collections: path -> [list, syncEnabled, syncing]
    collectionsInfo,  \* collectionsInfo: path -> [firstSync, collectionSubscribers, handles]
    listeners,        \* active top-level remote listeners: handle -> [path, alive, fresh, view, nested]
    watchers,         \* active store.watch watchers: handle -> path
    subscriberPath,   \* subscriber id -> [path captured by its unsubscribe closure,
                      \*                   called: its unsubscribe function was called]
    timers,           \* pending setTimeout callbacks, in firing order
    queued,           \* watcher callbacks queued by an options change
    handler,          \* position of the running stream-error handler
    diff,             \* diff specification: [prev, event, list] of the last applied event
    phase,            \* observer of the subscribe/unsubscribe/resubscribe scenario
    tree,             \* subscription-tree specification: one subscribeToCollection call
    mirror,           \* document specification: one subscribeToDocument call
    compiler,         \* compiler specification: one VuexModule instance
    plugin,           \* plugin specification: the state tree and its modules
    proxy,            \* proxy specification: a module's state and its proxy table
    wrapper,          \* wrapper specification: one object and its wrapper
    store             \* subscriber specification: the modules of one store

vars == <<collections, collectionsInfo, listeners, watchers,
          subscriberPath, timers, queued, handler, diff, phase, tree, mirror,
          compiler, plugin, proxy, wrapper, store>>

\* ---------------------------------------------------------------- helpers
Min(a, b) == IF a < b THEN a ELSE b
Max(a, b) == IF a > b THEN a ELSE b

Put(f, k, v) == [x \in DOMAIN f \cup {k} |-> IF x = k THEN v ELSE f[x]]
Del(f, k) == [x \in DOMAIN f \ {k} |-> f[x]]
Empty == [x \in {} |-> 0]

Range(s) == {s[i] : i \in DOMAIN s}

\* Array.prototype.indexOf, 1-based; 0 when absent
IndexOf(s, x) == IF x \in Range(s) THEN CHOOSE i \in DOMAIN s : s[i] = x /\ \A j \in 1..(i - 1) : s[j] # x ELSE 0

RemoveAt(s, i) == SubSeq(s, 1, i - 1) \o SubSeq(s, i + 1, Len(s))

\* Array.prototype.splice(start, deleteCount, ...items) with 0-based start
Splice(l, start, deleteCount, items) ==
    LET len == Len(l)
        s == IF start < 0 THEN Max(len + start, 0) ELSE Min(start, len)
        d == Min(Max(deleteCount, 0), len - s)
    IN SubSeq(l, 1, s) \o items \o SubSeq(l, s + d + 1, len)

\* collection[i] with a 0-based index: <<element>>, or <<>> for undefined
At(l, i) == IF 0 <= i /\ i < Len(l) THEN <<l[i + 1]>> ELSE <<>>

\* ------------------------------------------- js/firestore-utils.ts (diffs)
\* A document snapshot is the record [id, v]: snapshot.id and snapshot.data().
\* A document change is [type, doc, oldIndex, newIndex] with 0-based indices
\* (-1 where the database reports none).

\* mutant: the updated document starts with an empty list for every subcollection
applyDocumentChangesFresh(document, snapshot, options) ==
    LET names == {options.subcollections[i].name : i \in DOMAIN options.subcollections}
    IN [k \in (DOMAIN snapshot) \cup names |-> IF k \in names THEN <<>> ELSE snapshot[k]]

\* applyDocumentChanges: `document` is <<>> for null/undefined, <<d>> otherwise
applyDocumentChanges(document, snapshot, options) ==
    LET names == {options.subcollections[i].name : i \in DOMAIN options.subcollections}
    IN [k \in (DOMAIN snapshot) \cup names |->
            IF k \in names
            THEN IF document # <<>> /\ k \in DOMAIN document[1] THEN document[1][k] ELSE <<>>
            ELSE snapshot[k]]

\* mutant: an added document is pushed to the end of the list
applyDocumentChangePush(collection, documentChange, options) ==
    IF documentChange.type = "added"
    THEN Append(collection, applyDocumentChanges(<<>>, documentChange.doc, options))
    ELSE IF documentChange.type = "modified"
    THEN LET updatedDocument == applyDocumentChanges(At(collection, documentChange.oldIndex),
                                                     documentChange.doc, options)
         IN IF documentChange.oldIndex = documentChange.newIndex
            THEN Splice(collection, documentChange.oldIndex, 1, <<updatedDocument>>)
            ELSE Splice(Splice(collection, documentChange.oldIndex, 1, <<>>),
                        documentChange.newIndex, 0, <<updatedDocument>>)
    ELSE IF documentChange.type = "removed"
    THEN Splice(collection, documentChange.oldIndex, 1, <<>>)
    ELSE collection

\* mutant: a modified document that moves is inserted at newIndex before the old
\* entry is removed at oldIndex
applyDocumentChangeInsertFirst(collection, documentChange, options) ==
    IF documentChange.type = "added"
    THEN Splice(collection, documentChange.newIndex, 0,
                <<applyDocumentChanges(<<>>, documentChange.doc, options)>>)
    ELSE IF documentChange.type = "modified"
    THEN LET updatedDocument == applyDocumentChanges(At(collection, documentChange.oldIndex),
                                                     documentChange.doc, options)
         IN IF documentChange.oldIndex = documentChange.newIndex
            THEN Splice(collection, documentChange.oldIndex, 1, <<updatedDocument>>)
            ELSE Splice(Splice(collection, documentChange.newIndex, 0, <<updatedDocument>>),
                        documentChange.oldIndex, 1, <<>>)
    ELSE IF documentChange.type = "removed"
    THEN Splice(collection, documentChange.oldIndex, 1, <<>>)
    ELSE collection

\* one iteration of the loop of applyCollectionChanges
applyDocumentChange(collection, documentChange, options) ==
    IF documentChange.type = "added"
    THEN Splice(collection, documentChange.newIndex, 0,
                <<applyDocumentChanges(<<>>, documentChange.doc, options)>>)
    ELSE IF documentChange.type = "modified"
    THEN LET updatedDocument == applyDocumentChanges(At(collection, documentChange.oldIndex),
                                                     documentChange.doc, options)
         IN IF documentChange.oldIndex = documentChange.newIndex
            THEN Splice(collection, documentChange.oldIndex, 1, <<updatedDocument>>)
            ELSE Splice(Splice(collection, documentChange.oldIndex, 1, <<>>),
                        documentChange.newIndex, 0, <<updatedDocument>>)
    ELSE IF documentChange.type = "removed"
    THEN Splice(collection, documentChange.oldIndex, 1, <<>>)
    ELSE collection

RECURSIVE applyCollectionChanges(_, _, _)
applyCollectionChanges(collection, docChanges, options) ==
    IF docChanges = <<>> THEN collection
    ELSE applyCollectionChanges(applyDocumentChange(collection, Head(docChanges), options),
                                Tail(docChanges), options)

\* index (1-based) of the first document of the list whose id is ref; 0 if none
FindDoc(list, ref) ==
    IF \E i \in DOMAIN list : list[i].id = ref
    THEN CHOOSE i \in DOMAIN list : list[i].id = ref /\ \A j \in 1..(i - 1) : list[j].id # ref
    ELSE 0

\* mutant: the reference path is ignored, every event is applied to the root list
updateCollectionAtRoot(collection, options, refPath, docChanges) ==
    applyCollectionChanges(collection, docChanges, options)

\* updateCollectionFromSnapshot: getObjectFromRefPath(collection, true, refPath)
\* walks id, subcollection, id, ... and applyCollectionChanges then changes the
\* list it reached in place; a failed walk (null) returns the collection as is.
RECURSIVE updateCollectionFromSnapshot(_, _, _, _)
updateCollectionFromSnapshot(collection, options, refPath, docChanges) ==
    IF refPath = <<>> THEN applyCollectionChanges(collection, docChanges, options)
    ELSE LET i == FindDoc(collection, refPath[1])
         IN IF i = 0 \/ Len(refPath) < 2 THEN collection
            ELSE LET sub == CHOOSE o \in Range(options.subcollections) : o.collectionPath = refPath[2]
                     doc == collection[i]
                 IN IF sub.name \notin DOMAIN doc THEN collection
                    ELSE [collection EXCEPT ![i] =
                            [doc EXCEPT ![sub.name] =
                                updateCollectionFromSnapshot(doc[sub.name], sub,
                                                             SubSeq(refPath, 3, Len(refPath)), docChanges)]]

\* ------------------------------------------------ the remote change stream
\* What the database may report to a listener whose last reported result set
\* is `view` (a list of snapshots with distinct ids).
Snapshots(ids, vals) == [id : ids, v : vals]

\* the first snapshot of a listener: every document of the result set, added
InitialLists(ids, vals, maxLen) ==
    {l \in UNION {[1..n -> Snapshots(ids, vals)] : n \in 0..maxLen} :
        \A i, j \in DOMAIN l : i # j => l[i].id # l[j].id}

InitialChanges(l) ==
    [i \in DOMAIN l |-> [type |-> "added", doc |-> l[i], oldIndex |-> -1, newIndex |-> i - 1]]

\* a later snapshot with one document change
SingleChanges(view, ids, vals, maxLen) ==
    {[type |-> "added", doc |-> d, oldIndex |-> -1, newIndex |-> n] :
        d \in {s \in Snapshots(ids, vals) : Len(view) < maxLen /\ \A i \in DOMAIN view : view[i].id # s.id},
        n \in 0..Len(view)}
    \cup
    {[type |-> "removed", doc |-> view[i], oldIndex |-> i - 1, newIndex |-> -1] : i \in DOMAIN view}
    \cup
    {[type |-> "modified", doc |-> [id |-> view[c[1]].id, v |-> c[3]], oldIndex |-> c[1] - 1, newIndex |-> c[2] - 1] :
        c \in (DOMAIN view) \X (DOMAIN view) \X vals}

\* the listener's result set after it reported the change
ViewAfter(view, ch) ==
    IF ch.type = "added"
    THEN [i \in 1..(Len(view) + 1) |->
            IF i < ch.newIndex + 1 THEN view[i] ELSE IF i = ch.newIndex + 1 THEN ch.doc ELSE view[i - 1]]
    ELSE IF ch.type = "removed"
    THEN [i \in 1..(Len(view) - 1) |-> IF i < ch.oldIndex + 1 THEN view[i] ELSE view[i + 1]]
    ELSE LET rest == [i \in 1..(Len(view) - 1) |-> IF i < ch.oldIndex + 1 THEN view[i] ELSE view[i + 1]]
         IN [i \in 1..Len(view) |->
                IF i < ch.newIndex + 1 THEN rest[i] ELSE IF i = ch.newIndex + 1 THEN ch.doc ELSE rest[i - 1]]

RECURSIVE ViewAfterAll(_, _)
ViewAfterAll(view, chs) ==
    IF chs = <<>> THEN view ELSE ViewAfterAll(ViewAfter(view, Head(chs)), Tail(chs))

\* ------------------------------------- FirestoreCollectionsModule (part_001)
\* The module's mutable state as one value, so that the methods compose the way
\* they call each other.
\* `closed` holds the handles closed so far by the running handler: a handle
\* names one closure, so a listener or watcher opened by the same handler gets
\* a handle that is neither active nor just closed nor queued.
Core == [collections |-> collections, collectionsInfo |-> collectionsInfo,
         listeners |-> listeners, watchers |-> watchers,
         closed |-> {}, closedWatchers |-> Range(queued)]

\* the smallest handle of 1..n that is not in use; 0 when none is left
NewHandle(n, used) ==
    IF \E i \in 1..n : i \notin used
    THEN CHOOSE i \in 1..n : i \notin used /\ \A j \in 1..(i - 1) : j \in used
    ELSE 0

HasRecord(S, p) == p \in DOMAIN S.collections
HasInfo(S, p) == p \in DOMAIN S.collectionsInfo
SyncEnabled(S, p) == HasRecord(S, p) /\ S.collections[p].syncEnabled

\* @Mutation createCollection
createCollection(S, p) ==
    [S EXCEPT !.collectionsInfo = Put(@, p, [firstSync |-> FALSE,
                                             collectionSubscribers |-> <<>>,
                                             unsubscribeFromSync |-> 0,
                                             unsubscribeFromCollectionOptions |-> 0]),
              !.collections = Put(@, p, [list |-> <<>>, syncEnabled |-> FALSE, syncing |-> FALSE])]

\* mutant: disabling sync empties the list of the record
setSyncStatusClearsList(S, p, enabled, syncing, resetCollection) ==
    IF ~HasRecord(S, p) THEN S
    ELSE IF resetCollection
    THEN [S EXCEPT !.collections = Del(@, p), !.collectionsInfo = Del(@, p)]
    ELSE [S EXCEPT !.collections[p].syncEnabled = enabled, !.collections[p].syncing = syncing,
                   !.collections[p].list = IF enabled THEN @ ELSE <<>>]

\* mutant: disabling sync leaves syncing as it was
setSyncStatusKeepsSyncing(S, p, enabled, syncing, resetCollection) ==
    IF ~HasRecord(S, p) THEN S
    ELSE IF resetCollection
    THEN [S EXCEPT !.collections = Del(@, p), !.collectionsInfo = Del(@, p)]
    ELSE [S EXCEPT !.collections[p].syncEnabled = enabled,
                   !.collections[p].syncing = IF enabled THEN syncing ELSE @]

\* mutant: a reset deletes the record and keeps the bookkeeping entry
setSyncStatusKeepsInfo(S, p, enabled, syncing, resetCollection) ==
    IF ~HasRecord(S, p) THEN S
    ELSE IF resetCollection
    THEN [S EXCEPT !.collections = Del(@, p)]
    ELSE [S EXCEPT !.collections[p].syncEnabled = enabled, !.collections[p].syncing = syncing]

\* @Mutation setSyncStatus
setSyncStatus(S, p, enabled, syncing, resetCollection) ==
    IF ~HasRecord(S, p) THEN S
    ELSE IF resetCollection
    THEN [S EXCEPT !.collections = Del(@, p), !.collectionsInfo = Del(@, p)]
    ELSE [S EXCEPT !.collections[p].syncEnabled = enabled, !.collections[p].syncing = syncing]

\* @Mutation clearCollectionSubscribers
clearCollectionSubscribers(S, p) ==
    IF HasInfo(S, p) THEN [S EXCEPT !.collectionsInfo[p].collectionSubscribers = <<>>] ELSE S

\* subscribeToCollection up to its return: the top-level onSnapshot listener is
\* registered, no snapshot has been delivered yet; the handle is the new id
listenerHandle(S) == NewHandle(MaxListeners, DOMAIN S.listeners \cup S.closed)

subscribeToCollection(S, p) ==
    [S EXCEPT !.listeners = Put(@, listenerHandle(S),
                                [path |-> p, alive |-> TRUE, fresh |-> TRUE, view |-> <<>>,
                                 nested |-> Empty])]

\* the function subscribeToCollection returns: every entry of its subscriptions
\* map is unsubscribed, the top-level listener and all nested ones
unsubscribeListener(S, h) ==
    IF h \in DOMAIN S.listeners
    THEN [S EXCEPT !.listeners = Del(@, h), !.closed = @ \cup {h}]
    ELSE S

\* the function store.watch returns
unwatch(S, w) ==
    IF w \in DOMAIN S.watchers
    THEN [S EXCEPT !.watchers = Del(@, w), !.closedWatchers = @ \cup {w}]
    ELSE S

\* startCollectionSync, lines 90-112: open the listener when sync is disabled
openSync(S, p) ==
    IF S.collections[p].syncEnabled THEN S
    ELSE LET S1 == subscribeToCollection(S, p)
             S2 == [S1 EXCEPT !.collectionsInfo[p].firstSync = TRUE,
                              !.collectionsInfo[p].unsubscribeFromSync = listenerHandle(S)]
         IN setSyncStatus(S2, p, TRUE, TRUE, FALSE)

\* startCollectionSync, lines 114-124: watch the options of the path
watcherHandle(S) == NewHandle(MaxWatchers, DOMAIN S.watchers \cup S.closedWatchers)

watchOptions(S, p) ==
    [S EXCEPT !.watchers = Put(@, watcherHandle(S), p),
              !.collectionsInfo[p].unsubscribeFromCollectionOptions = watcherHandle(S)]

startCollectionSync(S, p) ==
    LET S1 == IF ~HasRecord(S, p) THEN createCollection(S, p) ELSE S
    IN watchOptions(openSync(S1, p), p)

stopCollectionSync(S, p, resetCollection) ==
    IF ~SyncEnabled(S, p) THEN S
    ELSE LET info == S.collectionsInfo[p]
             S1 == IF info.unsubscribeFromSync # 0
                   THEN [unsubscribeListener(S, info.unsubscribeFromSync)
                            EXCEPT !.collectionsInfo[p].unsubscribeFromSync = 0]
                   ELSE S
             S2 == IF info.unsubscribeFromCollectionOptions # 0
                   THEN [unwatch(S1, info.unsubscribeFromCollectionOptions)
                            EXCEPT !.collectionsInfo[p].unsubscribeFromCollectionOptions = 0]
                   ELSE S1
         IN setSyncStatus(S2, p, FALSE, FALSE, resetCollection)

\* mutant: sync is started by every call of syncCollection
mustStartAlways(S, p) == TRUE

\* syncCollection, line 57: does the call start sync first?
mustStart(S, p) ==
    \/ ~HasRecord(S, p)
    \/ ~S.collections[p].syncEnabled
    \/ Len(S.collectionsInfo[p].collectionSubscribers) = 0

\* syncCollection up to its return; `subscriber` is the new subscriber object
syncCollection(S, p, subscriber) ==
    LET S1 == IF mustStart(S, p) THEN startCollectionSync(S, p) ELSE S
    IN [S1 EXCEPT !.collectionsInfo[p].collectionSubscribers = Append(@, subscriber)]

\* mutant: the timer callback stops sync without looking at the subscriber list
unsubscribeTimeoutAlwaysStops(S, p, subscriber) ==
    IF ~HasInfo(S, p) THEN S
    ELSE LET index == IndexOf(S.collectionsInfo[p].collectionSubscribers, subscriber)
             S1 == IF index # 0
                   THEN [S EXCEPT !.collectionsInfo[p].collectionSubscribers = RemoveAt(@, index)]
                   ELSE S
         IN stopCollectionSync(S1, p, FALSE)

\* mutant: the timer callback splices at the index indexOf returned, also when
\* that is -1 (splice(-1, 1) removes the last subscriber)
unsubscribeTimeoutNoIndexCheck(S, p, subscriber) ==
    IF ~HasInfo(S, p) THEN S
    ELSE LET index == IndexOf(S.collectionsInfo[p].collectionSubscribers, subscriber)
             S1 == [S EXCEPT !.collectionsInfo[p].collectionSubscribers = Splice(@, index - 1, 1, <<>>)]
         IN IF Len(S1.collectionsInfo[p].collectionSubscribers) = 0
            THEN stopCollectionSync(S1, p, FALSE)
            ELSE S1

\* the setTimeout callback of the unsubscribe function of `subscriber`
unsubscribeTimeout(S, p, subscriber) ==
    IF ~HasInfo(S, p) THEN S
    ELSE LET index == IndexOf(S.collectionsInfo[p].collectionSubscribers, subscriber)
             S1 == IF index # 0
                   THEN [S EXCEPT !.collectionsInfo[p].collectionSubscribers = RemoveAt(@, index)]
                   ELSE S
         IN IF Len(S1.collectionsInfo[p].collectionSubscribers) = 0
            THEN stopCollectionSync(S1, p, FALSE)
            ELSE S1

\* mutant: the watcher callback restarts sync whenever the path has a record
optionsChangedNoEnabledCheck(S, p) ==
    IF HasRecord(S, p)
    THEN startCollectionSync(stopCollectionSync(S, p, FALSE), p)
    ELSE S

\* mutant: the watcher callback stops sync and does not start it again
optionsChangedStopOnly(S, p) ==
    IF SyncEnabled(S, p) THEN stopCollectionSync(S, p, FALSE) ELSE S

\* the callback of the options watcher of path p
optionsChanged(S, p) ==
    IF SyncEnabled(S, p)
    THEN startCollectionSync(stopCollectionSync(S, p, FALSE), p)
    ELSE S

\* mutant: the first event of a sync generation is applied to the list as it is
moduleUpdateKeepsStale(S, p, refPath, docChanges) ==
    IF ~HasRecord(S, p) THEN S
    ELSE [S EXCEPT !.collections[p].list =
                        updateCollectionFromSnapshot(@, PathOptions(p), refPath, docChanges),
                   !.collectionsInfo[p].firstSync = FALSE,
                   !.collections[p].syncing = FALSE]

\* @Mutation updateCollectionFromSnapshot of the module
moduleUpdateFromSnapshot(S, p, refPath, docChanges) ==
    IF ~HasRecord(S, p) THEN S
    ELSE [S EXCEPT !.collections[p].list =
                        updateCollectionFromSnapshot(
                            IF S.collectionsInfo[p].firstSync THEN <<>> ELSE @,
                            PathOptions(p), refPath, docChanges),
                   !.collectionsInfo[p].firstSync = FALSE,
                   !.collections[p].syncing = FALSE]

\* subscribeToCollection, lines 126-146: after onUpdate, the nested listeners
\* follow the document changes of the top-level snapshot
RECURSIVE nestedAfter(_, _)
nestedAfter(nested, docChanges) ==
    IF docChanges = <<>> THEN nested
    ELSE LET ch == Head(docChanges)
             n1 == IF ch.type = "added" THEN Put(nested, ch.doc.id, <<>>)
                   ELSE IF ch.type = "removed" THEN Del(nested, ch.doc.id)
                   ELSE nested
         IN nestedAfter(n1, Tail(docChanges))

\* the onSnapshot callback of the top-level listener l
topSnapshot(S, l, docChanges) ==
    LET L == S.listeners[l]
        S1 == moduleUpdateFromSnapshot(S, L.path, <<>>, docChanges)
    IN [S1 EXCEPT !.listeners[l] =
            [L EXCEPT !.fresh = FALSE,
                      !.view = ViewAfterAll(L.view, docChanges),
                      !.nested = IF PathOptions(L.path).subcollections = <<>> THEN @
                                 ELSE nestedAfter(@, docChanges)]]

\* the onSnapshot callback of the nested listener of document d under l
nestedSnapshot(S, l, d, docChanges) ==
    LET L == S.listeners[l]
        S1 == moduleUpdateFromSnapshot(S, L.path, <<d, SubOptions.collectionPath>>, docChanges)
    IN [S1 EXCEPT !.listeners[l].nested[d] = ViewAfterAll(@, docChanges)]

\* ------------------------------------------------------------ the actions
NoDiff == [prev |-> <<>>, event |-> <<>>, list |-> <<>>]

NoCompiler == [calls |-> 0]

NoPlugin == [pc |-> "none"]

NoProxy == [last |-> <<>>]

NoWrapper == [last |-> <<>>]

NoStore == [commits |-> 0]

NoMirror == [id |-> "", document |-> <<>>, listeners |-> <<>>, last |-> <<>>]

NoTree == [listeners |-> <<>>, list |-> <<>>, unsubscribed |-> FALSE]

Idle == [pc |-> "idle", path |-> "", idx |-> 0, atError |-> <<>>, notified |-> {}]

\* no callback is running: the stream-error handler is not in progress and no
\* watcher callback is queued
Quiet == handler = Idle /\ queued = <<>>

\* the handler's result becomes the state (no step when it ran out of handles)
Commit(S) ==
    /\ 0 \notin DOMAIN S.listeners
    /\ 0 \notin DOMAIN S.watchers
    /\ collections' = S.collections
    /\ collectionsInfo' = S.collectionsInfo
    /\ listeners' = S.listeners
    /\ watchers' = S.watchers

\* The scenario "N sync calls, then the N unsubscribe functions once each, then
\* one more sync before any timer fires, then the timers": the phase the run is
\* in, or "off" once the run has left the scenario; "reset" when the last
\* operation was an explicit reset.
PhaseAfter(op, sub) ==
    IF op = "sync" THEN
        IF phase \in {"init", "subscribing"} THEN "subscribing"
        ELSE IF phase = "unsubscribing" /\ Len(timers) = Len(subscriberPath) THEN "resubscribed"
        ELSE "off"
    ELSE IF op = "unsubscribe" THEN
        IF phase \in {"subscribing", "unsubscribing"} /\ \A i \in DOMAIN timers : timers[i].sub # sub
        THEN "unsubscribing" ELSE "off"
    ELSE IF op = "timer" THEN
        IF phase = "resubscribed" THEN "resubscribed" ELSE "off"
    ELSE IF op = "event" THEN IF phase = "reset" THEN "off" ELSE phase
    ELSE IF op = "reset" THEN "reset"
    ELSE "off"

\* a caller calls sync(p, onError) and keeps the unsubscribe function
Sync(p) ==
    /\ UNCHANGED <<diff, tree, mirror, compiler, plugin, proxy, wrapper, store>>
    /\ Quiet
    /\ Len(subscriberPath) < MaxSubs
    /\ Commit(syncCollection(Core, p, Len(subscriberPath) + 1))
    /\ subscriberPath' = Append(subscriberPath, [path |-> p, called |-> FALSE])
    /\ phase' = PhaseAfter("sync", 0)
    /\ UNCHANGED <<timers, queued, handler>>

\* the holder of the unsubscribe function of subscriber s calls it: setTimeout
Unsubscribe(s) ==
    /\ UNCHANGED <<diff, tree, mirror, compiler, plugin, proxy, wrapper, store>>
    /\ Quiet
    /\ s \in DOMAIN subscriberPath
    /\ Len(timers) < MaxTimers
    /\ timers' = Append(timers, [path |-> subscriberPath[s].path, sub |-> s])
    /\ subscriberPath' = [subscriberPath EXCEPT ![s].called = TRUE]
    /\ phase' = PhaseAfter("unsubscribe", s)
    /\ UNCHANGED <<collections, collectionsInfo, listeners, watchers, queued, handler>>

\* the oldest pending timer fires (all timers have the same delay)
TimerFire ==
    /\ UNCHANGED <<diff, tree, mirror, compiler, plugin, proxy, wrapper, store>>
    /\ Quiet
    /\ timers # <<>>
    /\ Commit(unsubscribeTimeout(Core, Head(timers).path, Head(timers).sub))
    /\ timers' = Tail(timers)
    /\ phase' = PhaseAfter("timer", 0)
    /\ UNCHANGED <<subscriberPath, queued, handler>>

\* the database delivers a snapshot to the top-level listener l
TopEvent(l) ==
    /\ UNCHANGED <<diff, tree, mirror, compiler, plugin, proxy, wrapper, store>>
    /\ Quiet
    /\ l \in DOMAIN listeners
    /\ listeners[l].alive
    /\ \E docChanges \in (IF listeners[l].fresh
                          THEN {InitialChanges(il) : il \in InitialLists(DocIds, StreamVals, MaxLen)}
                          ELSE {<<c>> : c \in SingleChanges(listeners[l].view, DocIds, StreamVals, MaxLen)}) :
            Commit(topSnapshot(Core, l, docChanges))
    /\ phase' = PhaseAfter("event", 0)
    /\ UNCHANGED <<subscriberPath, timers, queued, handler>>

\* the database delivers a snapshot to the nested listener of document d
NestedEvent(l, d) ==
    /\ UNCHANGED <<diff, tree, mirror, compiler, plugin, proxy, wrapper, store>>
    /\ Quiet
    /\ l \in DOMAIN listeners
    /\ d \in DOMAIN listeners[l].nested
    /\ \E c \in SingleChanges(listeners[l].nested[d], SubIds, StreamVals, MaxLen) :
            Commit(nestedSnapshot(Core, l, d, <<c>>))
    /\ phase' = PhaseAfter("event", 0)
    /\ UNCHANGED <<subscriberPath, timers, queued, handler>>

\* The onError callback of startCollectionSync, up to its loop: a listener of
\* the tree l failed (src is "top" or the document of a nested listener; the
\* database has ended that listener), sync is stopped.
failedListener(S, l, src) ==
    IF src = "top" THEN [S EXCEPT !.listeners[l].alive = FALSE]
    ELSE [S EXCEPT !.listeners[l].nested = Del(@, src)]

StreamError(l, src) ==
    /\ UNCHANGED <<diff, tree, mirror, compiler, plugin, proxy, wrapper, store>>
    /\ Quiet
    /\ l \in DOMAIN listeners
    /\ \/ src = "top" /\ listeners[l].alive
       \/ src \in DOMAIN listeners[l].nested
    /\ LET p == listeners[l].path
       IN /\ Commit(stopCollectionSync(failedListener(Core, l, src), p, FALSE))
          /\ handler' = IF HasInfo(Core, p)
                        THEN [pc |-> "notify", path |-> p, idx |-> 1,
                              atError |-> collectionsInfo[p].collectionSubscribers,
                              notified |-> {}]
                        ELSE Idle
    /\ phase' = PhaseAfter("error", 0)
    /\ UNCHANGED <<subscriberPath, timers, queued>>

\* the loop of the error handler calls the onError of the next subscriber of the
\* live array; the callback returns, or calls sync(p) again before it returns
ErrorNotify(resync) ==
    /\ UNCHANGED <<diff, tree, mirror, compiler, plugin, proxy, wrapper, store>>
    /\ handler.pc = "notify"
    /\ handler.idx <= Len(collectionsInfo[handler.path].collectionSubscribers)
    /\ handler' = [handler EXCEPT !.idx = @ + 1,
                                  !.notified = @ \cup {collectionsInfo[handler.path].collectionSubscribers[handler.idx]}]
    /\ IF resync
       THEN /\ Len(subscriberPath) < MaxSubs
            /\ Commit(syncCollection(Core, handler.path, Len(subscriberPath) + 1))
            /\ subscriberPath' = Append(subscriberPath, [path |-> handler.path, called |-> FALSE])
       ELSE UNCHANGED <<collections, collectionsInfo, listeners, watchers,
                        subscriberPath>>
    /\ UNCHANGED <<timers, queued, phase>>

\* the loop is over: clearCollectionSubscribers, and the handler returns
ErrorClear ==
    /\ UNCHANGED <<diff, tree, mirror, compiler, plugin, proxy, wrapper, store>>
    /\ handler.pc = "notify"
    /\ handler.idx > Len(collectionsInfo[handler.path].collectionSubscribers)
    /\ Commit(clearCollectionSubscribers(Core, handler.path))
    /\ handler' = Idle
    /\ UNCHANGED <<subscriberPath, timers, queued, phase>>

\* the effective options of the paths change: the store queues the callback of
\* every active watcher, in the order the watchers were created
RECURSIVE Ascending(_)
Ascending(S) ==
    IF S = {} THEN <<>>
    ELSE LET m == CHOOSE x \in S : \A y \in S : x <= y IN <<m>> \o Ascending(S \ {m})

OptionsChange ==
    /\ UNCHANGED <<diff, tree, mirror, compiler, plugin, proxy, wrapper, store>>
    /\ Quiet
    /\ DOMAIN watchers # {}
    /\ queued' = Ascending(DOMAIN watchers)
    /\ phase' = PhaseAfter("options", 0)
    /\ UNCHANGED <<collections, collectionsInfo, listeners, watchers,
                   subscriberPath, timers, handler>>

\* the store runs the next queued watcher callback, unless it was unwatched
WatcherRun ==
    /\ UNCHANGED <<diff, tree, mirror, compiler, plugin, proxy, wrapper, store>>
    /\ queued # <<>>
    /\ queued' = Tail(queued)
    /\ IF Head(queued) \in DOMAIN watchers
       THEN Commit(optionsChanged(Core, watchers[Head(queued)]))
       ELSE UNCHANGED <<collections, collectionsInfo, listeners, watchers>>
    /\ UNCHANGED <<subscriberPath, timers, handler, phase>>

\* an explicit reset: stopCollectionSync(p, true)
Reset(p) ==
    /\ UNCHANGED <<diff, tree, mirror, compiler, plugin, proxy, wrapper, store>>
    /\ Quiet
    /\ Commit(stopCollectionSync(Core, p, TRUE))
    /\ phase' = PhaseAfter("reset", 0)
    /\ UNCHANGED <<subscriberPath, timers, queued, handler>>

Init ==
    /\ collections = Empty
    /\ collectionsInfo = Empty
    /\ listeners = Empty
    /\ watchers = Empty
    /\ subscriberPath = <<>>
    /\ timers = <<>>
    /\ queued = <<>>
    /\ handler = Idle
    /\ diff = NoDiff
    /\ phase = "init"
    /\ tree = NoTree
    /\ mirror = NoMirror
    /\ compiler = NoCompiler
    /\ plugin = NoPlugin
    /\ proxy = NoProxy
    /\ wrapper = NoWrapper
    /\ store = NoStore

Next ==
    \/ \E p \in Paths : Sync(p)
    \/ \E s \in 1..MaxSubs : Unsubscribe(s)
    \/ TimerFire
    \/ \E l \in 1..MaxListeners : TopEvent(l)
    \/ \E l \in 1..MaxListeners, d \in DocIds : NestedEvent(l, d)
    \/ \E l \in 1..MaxListeners, src \in {"top"} \cup DocIds : StreamError(l, src)
    \/ \E resync \in BOOLEAN : ErrorNotify(resync)
    \/ ErrorClear
    \/ OptionsChange
    \/ WatcherRun
    \/ \E p \in Paths : Reset(p)

Spec == Init /\ [][Next]_vars

\* ------------------------------------------------- the diff specification
\* applyCollectionChanges as a function of its inputs: a mirrored list of
\* documents with distinct ids (each with its nested list "s"), and an event
\* whose document changes carry the indices the database reports for them,
\* each relative to the result set after the changes before it.
NestedLists == {<<>>, <<[id |-> "x", v |-> 0]>>}
\* the one document of the input lists that has nested documents
NestedOwner == "a"

LocalLists ==
    {l \in UNION {[1..n -> [id : DiffIds, v : Vals, s : NestedLists]] : n \in 0..MaxDiffLen} :
        /\ \A i, j \in DOMAIN l : i # j => l[i].id # l[j].id
        /\ \A i \in DOMAIN l : l[i].s # <<>> => l[i].id = NestedOwner}

Plain(list) == [i \in DOMAIN list |-> [id |-> list[i].id, v |-> list[i].v]]

InitDiff ==
    /\ collections = Empty
    /\ collectionsInfo = Empty
    /\ listeners = Empty
    /\ watchers = Empty
    /\ subscriberPath = <<>>
    /\ timers = <<>>
    /\ queued = <<>>
    /\ handler = Idle
    /\ phase = "init"
    /\ tree = NoTree
    /\ mirror = NoMirror
    /\ compiler = NoCompiler
    /\ plugin = NoPlugin
    /\ proxy = NoProxy
    /\ wrapper = NoWrapper
    /\ store = NoStore
    /\ \E l \in LocalLists : diff = [prev |-> l, event |-> <<>>, list |-> l]

\* The event applied to diff.prev may report one more document change: the
\* whole event is applied to the list the event started from.
DiffChange ==
    /\ Len(diff.event) < MaxChanges
    /\ \E c \in SingleChanges(ViewAfterAll(Plain(diff.prev), diff.event), DiffIds, Vals, MaxDiffLen) :
            diff' = [prev |-> diff.prev, event |-> Append(diff.event, c),
                     list |-> applyCollectionChanges(diff.prev, Append(diff.event, c),
                                                     PathOptions("users"))]
    /\ UNCHANGED <<collections, collectionsInfo, listeners, watchers,
                   subscriberPath, timers, queued, handler, phase, tree, mirror,
                   compiler, plugin, proxy, wrapper, store>>

\* the event is processed; the next event is applied to its result
DiffNext ==
    /\ diff.event # <<>>
    /\ diff' = [prev |-> diff.list, event |-> <<>>, list |-> diff.list]
    /\ UNCHANGED <<collections, collectionsInfo, listeners, watchers,
                   subscriberPath, timers, queued, handler, phase, tree, mirror,
                   compiler, plugin, proxy, wrapper, store>>

NextDiff == DiffChange \/ DiffNext

SpecDiff == InitDiff /\ [][NextDiff]_vars

\* --------------------------------------- the subscription-tree specification
\* One subscribeToCollection call of a caller that mirrors the collection with
\* updateCollectionFromSnapshot, as the module does. The options configure
\* two subcollections of the root, "s" (stored under the name "items", with
\* a subcollection "t" of its own) and "u". A listener is named by the
\* reference path its events are reported with; `tree.listeners` holds the
\* listeners the `subscriptions` maps of the call hold: [alive, fresh, view].
TreeOptions ==
    [collectionPath |-> "users", name |-> "users", subcollections |-> <<
        [collectionPath |-> "s", name |-> "items", subcollections |-> <<
            [collectionPath |-> "t", name |-> "t", subcollections |-> <<>>]>>],
        [collectionPath |-> "u", name |-> "u", subcollections |-> <<>>]>>]

IsPrefix(p, q) == Len(p) <= Len(q) /\ SubSeq(q, 1, Len(p)) = p

\* the options a nested subscribeToCollection call was given (the loop variable
\* subcollectionOptions of its parent)
RECURSIVE OptionsAt(_, _)
OptionsAt(options, refPath) ==
    IF refPath = <<>> THEN options
    ELSE OptionsAt(CHOOSE o \in Range(options.subcollections) : o.collectionPath = refPath[2],
                   SubSeq(refPath, 3, Len(refPath)))

\* the unsubscribe function of the call that owns the listener `path`: it calls
\* every value of its subscriptions map, the nested calls do the same
treeUnsubscribe(L, path) ==
    [k \in DOMAIN L |-> IF IsPrefix(path, k) THEN [L[k] EXCEPT !.alive = FALSE] ELSE L[k]]

\* the listener `path` was unsubscribed and its map entry deleted or replaced:
\* nothing refers to it or to the closed listeners of its own map any more
treeDelete(L, path) ==
    [k \in {x \in DOMAIN L : ~IsPrefix(path, x)} |-> L[k]]

\* mutant: the nested listener of a removed document is left as it is
treeDocumentChangeKeepsRemoved(L, path, subcollectionOptions, documentChange) ==
    LET key == path \o <<documentChange.doc.id, subcollectionOptions.collectionPath>>
    IN IF documentChange.type = "added"
       THEN Put(treeDelete(treeUnsubscribe(L, key), key), key,
                [alive |-> TRUE, fresh |-> TRUE, view |-> <<>>])
       ELSE L

\* mutant: a removed document closes its nested listener and leaves the
\* listeners below that one open
treeDocumentChangeShallow(L, path, subcollectionOptions, documentChange) ==
    LET key == path \o <<documentChange.doc.id, subcollectionOptions.collectionPath>>
    IN IF documentChange.type = "added"
       THEN Put(treeDelete(treeUnsubscribe(L, key), key), key,
                [alive |-> TRUE, fresh |-> TRUE, view |-> <<>>])
       ELSE IF documentChange.type = "removed"
       THEN [k \in DOMAIN L \ {key} |-> L[k]]
       ELSE L

\* the body of the loops of the snapshot callback for one subcollection and one
\* document change
treeDocumentChange(L, path, subcollectionOptions, documentChange) ==
    LET key == path \o <<documentChange.doc.id, subcollectionOptions.collectionPath>>
    IN IF documentChange.type = "added"
       THEN Put(treeDelete(treeUnsubscribe(L, key), key), key,
                [alive |-> TRUE, fresh |-> TRUE, view |-> <<>>])
       ELSE IF documentChange.type = "removed"
       THEN treeDelete(treeUnsubscribe(L, key), key)
       ELSE L

RECURSIVE treeDocumentChanges(_, _, _, _)
treeDocumentChanges(L, path, subcollectionOptions, docChanges) ==
    IF docChanges = <<>> THEN L
    ELSE treeDocumentChanges(treeDocumentChange(L, path, subcollectionOptions, Head(docChanges)),
                             path, subcollectionOptions, Tail(docChanges))

RECURSIVE treeSubcollections(_, _, _, _)
treeSubcollections(L, path, subcollections, docChanges) ==
    IF subcollections = <<>> THEN L
    ELSE treeSubcollections(treeDocumentChanges(L, path, Head(subcollections), docChanges),
                            path, Tail(subcollections), docChanges)

\* The onSnapshot callback of the listener `path`: onUpdate first (the caller
\* mirrors the event and, if `reentrant`, calls the unsubscribe function of the
\* whole subscription before it returns), then the loops over the
\* subcollections and the document changes.
treeSnapshot(T, path, docChanges, reentrant) ==
    LET list == updateCollectionFromSnapshot(T.list, TreeOptions, path, docChanges)
        L0 == [T.listeners EXCEPT ![path].view = ViewAfterAll(@, docChanges),
                                  ![path].fresh = FALSE]
        L1 == IF reentrant THEN treeUnsubscribe(L0, <<>>) ELSE L0
    IN [listeners |-> treeSubcollections(L1, path, OptionsAt(TreeOptions, path).subcollections,
                                         docChanges),
        list |-> list,
        unsubscribed |-> T.unsubscribed \/ reentrant]

TreeIds(path) == IF path = <<>> THEN DocIds ELSE SubIds

\* what the database may report next to the listener `path`
TreeEvents(T, path) ==
    IF T.listeners[path].fresh
    THEN {InitialChanges(l) : l \in InitialLists(TreeIds(path), StreamVals, MaxLen)}
    ELSE {<<c>> : c \in SingleChanges(T.listeners[path].view, TreeIds(path), StreamVals, MaxLen)}

TreeFrame ==
    UNCHANGED <<collections, collectionsInfo, listeners, watchers,
                subscriberPath, timers, queued, handler, phase, diff, mirror,
                compiler, plugin, proxy, wrapper, store>>

\* the state when subscribeToCollection has returned
InitTree ==
    /\ collections = Empty
    /\ collectionsInfo = Empty
    /\ listeners = Empty
    /\ watchers = Empty
    /\ subscriberPath = <<>>
    /\ timers = <<>>
    /\ queued = <<>>
    /\ handler = Idle
    /\ phase = "init"
    /\ diff = NoDiff
    /\ mirror = NoMirror
    /\ compiler = NoCompiler
    /\ plugin = NoPlugin
    /\ proxy = NoProxy
    /\ wrapper = NoWrapper
    /\ store = NoStore
    /\ tree = [listeners |-> Put(<<>>, <<>>, [alive |-> TRUE, fresh |-> TRUE, view |-> <<>>]),
               list |-> <<>>, unsubscribed |-> FALSE]

\* an active listener of the tree delivers a snapshot
TreeSnapshot(path, reentrant) ==
    /\ path \in DOMAIN tree.listeners
    /\ tree.listeners[path].alive
    /\ reentrant => ~tree.unsubscribed
    /\ \E docChanges \in TreeEvents(tree, path) :
            tree' = treeSnapshot(tree, path, docChanges, reentrant)
    /\ TreeFrame

\* the caller calls the unsubscribe function subscribeToCollection returned
TreeUnsubscribe ==
    /\ tree' = [tree EXCEPT !.listeners = treeUnsubscribe(@, <<>>), !.unsubscribed = TRUE]
    /\ TreeFrame

NextTree ==
    \/ \E path \in DOMAIN tree.listeners, reentrant \in BOOLEAN : TreeSnapshot(path, reentrant)
    \/ TreeUnsubscribe

SpecTree == InitTree /\ [][NextTree]_vars

\* ------------------------------------------------ the document specification
\* One subscribeToDocument call for the document mirror.id with the options
\* TreeOptions, by a caller that passes every triple it is given to
\* updateDocumentFromSnapshot. `mirror.document` is <<>> while the caller has
\* no document yet; `mirror.last` holds the outcome of the last call.

\* getObjectFromRefPath followed by applyCollectionChanges on the object it
\* returns. isRefId tells whether the next segment is read as a document id
\* (the object is a list) or as a subcollection (the object is a document).
\* "null": the walk returned null; "threw": it raised a TypeError
\* (find returned undefined, or the object reached is not a list).
RECURSIVE applyAtRefPath(_, _, _, _, _)
applyAtRefPath(object, isRefId, refPath, options, docChanges) ==
    IF refPath = <<>>
    THEN IF isRefId
         THEN [status |-> "applied", object |-> applyCollectionChanges(object, docChanges, options)]
         ELSE [status |-> "threw", object |-> object]
    ELSE IF isRefId
    THEN LET i == FindDoc(object, refPath[1])
         IN IF i = 0 THEN [status |-> "null", object |-> object]
            ELSE LET r == applyAtRefPath(object[i], FALSE, Tail(refPath), options, docChanges)
                 IN [status |-> r.status, object |-> [object EXCEPT ![i] = r.object]]
    ELSE IF \A o \in Range(options.subcollections) : o.collectionPath # refPath[1]
    THEN [status |-> "threw", object |-> object]
    ELSE LET sub == CHOOSE o \in Range(options.subcollections) : o.collectionPath = refPath[1]
         IN IF sub.name \notin DOMAIN object THEN [status |-> "null", object |-> object]
            ELSE LET r == applyAtRefPath(object[sub.name], TRUE, Tail(refPath), sub, docChanges)
                 IN [status |-> r.status, object |-> [object EXCEPT ![sub.name] = r.object]]

\* updateDocumentFromSnapshot: the walk starts with isCollection = false.
\* subscribeToDocument reports isDocument = true with the empty path only.
updateDocumentFromSnapshot(document, options, refPath, snapshot, isDocument) ==
    IF isDocument
    THEN [status |-> "applied", document |-> <<applyDocumentChanges(document, snapshot, options)>>]
    ELSE IF document = <<>> THEN [status |-> "threw", document |-> document]
    ELSE LET r == applyAtRefPath(document[1], FALSE, refPath, options, snapshot)
         IN [status |-> r.status, document |-> <<r.object>>]

\* subscribeToDocument: the listener of the document (path <<>>) and one
\* subscribeToCollection per subcollection, reported with [id, collectionPath]
subscribeToDocument(id, options) ==
    [k \in {<<>>} \cup {<<id, options.subcollections[i].collectionPath>> : i \in DOMAIN options.subcollections}
        |-> [alive |-> TRUE, fresh |-> TRUE, view |-> <<>>]]

\* ids a document may have: "s" is also the collection path of a subcollection
MirrorIds == {"a", "s"}

MirrorFrame ==
    UNCHANGED <<collections, collectionsInfo, listeners, watchers,
                subscriberPath, timers, queued, handler, phase, diff, tree,
                compiler, plugin, proxy, wrapper, store>>

InitMirror ==
    /\ collections = Empty
    /\ collectionsInfo = Empty
    /\ listeners = Empty
    /\ watchers = Empty
    /\ subscriberPath = <<>>
    /\ timers = <<>>
    /\ queued = <<>>
    /\ handler = Idle
    /\ phase = "init"
    /\ diff = NoDiff
    /\ tree = NoTree
    /\ compiler = NoCompiler
    /\ plugin = NoPlugin
    /\ proxy = NoProxy
    /\ wrapper = NoWrapper
    /\ store = NoStore
    /\ \E id \in MirrorIds :
            mirror = [id |-> id, document |-> <<>>,
                      listeners |-> subscribeToDocument(id, TreeOptions), last |-> <<>>]

\* the listener of the document reports a snapshot: onUpdate([], snapshot, true)
MirrorDocument ==
    /\ mirror.listeners[<<>>].alive
    /\ \E snapshot \in Snapshots({mirror.id}, Vals) :
        LET r == updateDocumentFromSnapshot(mirror.document, TreeOptions, <<>>, snapshot, TRUE)
        IN mirror' = [mirror EXCEPT
                !.document = r.document,
                !.listeners[<<>>] = [alive |-> TRUE, fresh |-> FALSE, view |-> <<snapshot>>],
                !.last = <<[refPath |-> <<>>, isDocument |-> TRUE, status |-> r.status,
                            hadDocument |-> mirror.document # <<>>]>>]
    /\ MirrorFrame

\* a listener of a subcollection tree reports a snapshot: onUpdate(path,
\* snapshot, false); an exception of onUpdate ends the snapshot callback
\* before its loops
MirrorCollection(path) ==
    /\ path # <<>>
    /\ path \in DOMAIN mirror.listeners
    /\ mirror.listeners[path].alive
    /\ \E docChanges \in TreeEvents(mirror, path) :
        LET r == updateDocumentFromSnapshot(mirror.document, TreeOptions, path, docChanges, FALSE)
            L0 == [mirror.listeners EXCEPT ![path].view = ViewAfterAll(@, docChanges),
                                           ![path].fresh = FALSE]
        IN mirror' = [mirror EXCEPT
                !.document = r.document,
                !.listeners = IF r.status = "threw" THEN L0
                              ELSE treeSubcollections(L0, path,
                                        OptionsAt(TreeOptions, path).subcollections,
                                        docChanges),
                !.last = <<[refPath |-> path, isDocument |-> FALSE, status |-> r.status,
                            hadDocument |-> mirror.document # <<>>]>>]
    /\ MirrorFrame

\* the caller calls the unsubscribe function subscribeToDocument returned
MirrorUnsubscribe ==
    /\ mirror' = [mirror EXCEPT !.listeners = treeUnsubscribe(@, <<>>)]
    /\ MirrorFrame

NextMirror ==
    \/ MirrorDocument
    \/ \E path \in DOMAIN mirror.listeners : MirrorCollection(path)
    \/ MirrorUnsubscribe

SpecMirror == InitMirror /\ [][NextMirror]_vars

\* ------------------------------------------------------------- the claims
Subscribers(p) == collectionsInfo[p].collectionSubscribers
InScenario == phase \in {"subscribing", "unsubscribing", "resubscribed"}

\* C1: through N sync(path) calls, the N calls of their unsubscribe functions,
\* one more sync(path) made before any timer fires, and the firing of the N
\* timers, the path stays sync-enabled with the one listener the first call
\* opened: no step of the scenario closes that listener or opens another.
C1_ResubscribeKeepsSync ==
    [][InScenario' =>
        \A p \in Paths :
            /\ p \in DOMAIN collections'
            /\ collections'[p].syncEnabled
            /\ Cardinality(DOMAIN listeners') = 1
            /\ collectionsInfo'[p].unsubscribeFromSync \in DOMAIN listeners'
            /\ listeners'[collectionsInfo'[p].unsubscribeFromSync].alive
            /\ InScenario =>
                /\ DOMAIN listeners' = DOMAIN listeners
                /\ collectionsInfo'[p].unsubscribeFromSync = collectionsInfo[p].unsubscribeFromSync
                /\ collections[p].syncEnabled]_vars

\* two subscribers, both unsubscribed, a third sync, both timers have fired
C1_Witness ==
    /\ phase = "resubscribed"
    /\ timers = <<>>
    /\ Len(subscriberPath) = 3
    /\ \A p \in Paths : Subscribers(p) = <<3>> /\ collections[p].syncEnabled

\* C2: when a debounce timer fires it removes at most the subscriber of its own
\* unsubscribe function, and it stops sync only if the subscriber list is
\* empty after that: never while another subscriber is registered.
TimerStep == timers # <<>> /\ timers' = Tail(timers)

C2_TimerStopsOnlyWhenEmpty ==
    [][TimerStep =>
        LET p == Head(timers).path
            own == Head(timers).sub
        IN p \in DOMAIN collectionsInfo =>
            /\ p \in DOMAIN collectionsInfo'
            /\ \A i \in DOMAIN Subscribers(p) :
                    Subscribers(p)[i] # own => Subscribers(p)[i] \in Range(collectionsInfo'[p].collectionSubscribers)
            /\ Len(collectionsInfo'[p].collectionSubscribers) >= Len(Subscribers(p)) - 1
            /\ (collections[p].syncEnabled /\ ~collections'[p].syncEnabled)
                    => collectionsInfo'[p].collectionSubscribers = <<>>
            /\ (collections[p].syncEnabled /\ \E i \in DOMAIN Subscribers(p) : Subscribers(p)[i] # own)
                    => collections'[p].syncEnabled]_vars

\* the timer of a subscriber that is no longer registered (cleared by an error
\* or a reset, or removed by an earlier timer) is about to fire while another
\* subscriber keeps the path sync-enabled
C2_Witness ==
    /\ timers # <<>>
    /\ Quiet
    /\ Head(timers).path \in DOMAIN collectionsInfo
    /\ Head(timers).sub \notin Range(Subscribers(Head(timers).path))
    /\ Subscribers(Head(timers).path) # <<>>
    /\ collections[Head(timers).path].syncEnabled

\* every subscriber created so far has called its unsubscribe function, every
\* debounce timer has fired and no callback is running
AllUnsubscribed ==
    /\ Quiet
    /\ timers = <<>>
    /\ subscriberPath # <<>>
    /\ \A s \in DOMAIN subscriberPath : subscriberPath[s].called

\* C3: once every subscriber of a path has called its unsubscribe function and
\* all debounce timers have fired, the path has syncEnabled=false and
\* syncing=false, and no remote listener and no options watcher of the path is
\* left subscribed.
C3_AllUnsubscribedStopsSync ==
    AllUnsubscribed =>
        \A p \in Paths :
            /\ p \in DOMAIN collections =>
                    ~collections[p].syncEnabled /\ ~collections[p].syncing
            /\ \A l \in DOMAIN listeners : listeners[l].path # p
            /\ \A w \in DOMAIN watchers : watchers[w] # p

\* a sync(path) call returned in this step: one subscriber object was created
SyncStep == Len(subscriberPath') = Len(subscriberPath) + 1
NewSubscriber == Len(subscriberPath')
NewListeners == DOMAIN listeners' \ DOMAIN listeners

\* C4: sync(path) on a path without a record creates the record with an empty
\* list, opens one remote listener and returns with syncEnabled=true,
\* syncing=true and exactly one subscriber; sync(path) on a sync-enabled path
\* with at least one subscriber only appends one subscriber: no listener and
\* no watcher is opened and the record is untouched.
C4_SyncStartsOrJoins ==
    [][SyncStep =>
        LET p == subscriberPath'[NewSubscriber].path
        IN /\ p \notin DOMAIN collections =>
                /\ p \in DOMAIN collections'
                /\ collections'[p] = [list |-> <<>>, syncEnabled |-> TRUE, syncing |-> TRUE]
                /\ collectionsInfo'[p].collectionSubscribers = <<NewSubscriber>>
                /\ Cardinality(NewListeners) = 1
                /\ \A l \in NewListeners :
                        /\ listeners'[l].path = p /\ listeners'[l].fresh
                        /\ collectionsInfo'[p].unsubscribeFromSync = l
           /\ (p \in DOMAIN collections /\ collections[p].syncEnabled /\ Subscribers(p) # <<>>) =>
                /\ collectionsInfo' = [collectionsInfo EXCEPT
                                        ![p].collectionSubscribers = Append(@, NewSubscriber)]
                /\ UNCHANGED <<collections, listeners, watchers>>]_vars

\* a second sync(path) joined the sync the first one started
C4_Witness ==
    \E p \in Paths :
        /\ p \in DOMAIN collections
        /\ collections[p] = [list |-> <<>>, syncEnabled |-> TRUE, syncing |-> TRUE]
        /\ Subscribers(p) = <<1, 2>>
        /\ Cardinality(DOMAIN listeners) = 1
        /\ Cardinality(DOMAIN watchers) = 1

\* the mirrored list equals the result set the listener has reported: the
\* top-level documents in order, each with the list of its nested listener
Mirrors(list, L) ==
    /\ Plain(list) = L.view
    /\ \A i \in DOMAIN list :
            /\ list[i].id \in DOMAIN L.nested
            /\ list[i].s = L.nested[list[i].id]

\* the listener l delivered a snapshot in this step
EventStep(l) ==
    /\ Quiet /\ Quiet'
    /\ l \in DOMAIN listeners /\ l \in DOMAIN listeners'
    /\ listeners'[l] # listeners[l]

\* C5: the first event processed after sync is started or restarted is applied
\* to an empty list: after it the list holds exactly the documents that event
\* reported, none left over from an earlier generation, and syncing is false;
\* every later event of the generation is applied to the current list, so the
\* list keeps equal to the result set the listener reports.
C5_FirstEventReplacesList ==
    [][\A l \in DOMAIN listeners : EventStep(l) =>
        LET p == listeners[l].path
        IN /\ listeners[l].fresh <=> collectionsInfo[p].firstSync
           /\ ~listeners[l].fresh => Mirrors(collections[p].list, listeners[l])
           /\ ~collections'[p].syncing
           /\ ~collectionsInfo'[p].firstSync
           /\ Mirrors(collections'[p].list, listeners'[l])]_vars

\* sync was restarted by an options change (the second listener handle is only
\* used by a restart) and the first event of the new listener was processed
C5_Witness ==
    \E p \in Paths :
        /\ p \in DOMAIN collections
        /\ collections[p].syncEnabled /\ ~collections[p].syncing
        /\ collectionsInfo[p].unsubscribeFromSync = 2
        /\ 2 \in DOMAIN listeners /\ ~listeners[2].fresh
        /\ Len(collections[p].list) = 1

\* reference semantics of one document change, position by position
RefInsert(l, k, d) ==
    [i \in 1..(Len(l) + 1) |-> IF i < k THEN l[i] ELSE IF i = k THEN d ELSE l[i - 1]]
RefDelete(l, k) ==
    [i \in 1..(Len(l) - 1) |-> IF i < k THEN l[i] ELSE l[i + 1]]
RefChange(l, ch) ==
    IF ch.type = "added" THEN RefInsert(l, ch.newIndex + 1, [id |-> ch.doc.id, v |-> ch.doc.v, s |-> <<>>])
    ELSE IF ch.type = "removed" THEN RefDelete(l, ch.oldIndex + 1)
    ELSE LET d == [id |-> ch.doc.id, v |-> ch.doc.v, s |-> l[ch.oldIndex + 1].s]
         IN IF ch.oldIndex = ch.newIndex THEN [l EXCEPT ![ch.oldIndex + 1] = d]
            ELSE RefInsert(RefDelete(l, ch.oldIndex + 1), ch.newIndex + 1, d)
RECURSIVE RefChanges(_, _)
RefChanges(l, chs) == IF chs = <<>> THEN l ELSE RefChanges(RefChange(l, Head(chs)), Tail(chs))

\* C6: the list after an event is the list before it with every document
\* change applied one by one in the order the event reports them (added
\* inserts at newIndex, removed deletes at oldIndex, modified replaces at
\* oldIndex or deletes at oldIndex and inserts at newIndex); it is not
\* re-sorted by id.
C6_ChangesAppliedInOrder ==
    diff.list = RefChanges(diff.prev, diff.event)

\* added(0, a) then added(0, b) on an empty list gives <<b, a>>
C6_Witness ==
    /\ diff.prev = <<>>
    /\ Len(diff.event) = 2
    /\ diff.event[1].type = "added" /\ diff.event[2].type = "added"
    /\ Len(diff.list) = 2
    /\ diff.list[1].id = "b" /\ diff.list[2].id = "a"

Without(l, k) == [i \in 1..(Len(l) - 1) |-> IF i < k THEN l[i] ELSE l[i + 1]]

\* C7: a modified change leaves the length of the list unchanged; with
\* oldIndex = newIndex the element at that index is replaced and every other
\* position is untouched; with oldIndex # newIndex the updated document is at
\* newIndex, occurs once, and the other documents keep their relative order.
C7_ModifiedKeepsLength ==
    (Len(diff.event) = 1 /\ diff.event[1].type = "modified") =>
        LET ch == diff.event[1]
            old == ch.oldIndex + 1
            new == ch.newIndex + 1
        IN /\ Len(diff.list) = Len(diff.prev)
           /\ diff.list[new].id = ch.doc.id /\ diff.list[new].v = ch.doc.v
           /\ Cardinality({i \in DOMAIN diff.list : diff.list[i].id = ch.doc.id}) = 1
           /\ old = new => \A i \in DOMAIN diff.prev : i # old => diff.list[i] = diff.prev[i]
           /\ Without(diff.list, new) = Without(diff.prev, old)

\* a document of a list of three moved from the first to the last position
C7_Witness ==
    /\ Len(diff.event) = 1 /\ diff.event[1].type = "modified"
    /\ diff.event[1].oldIndex = 0 /\ diff.event[1].newIndex = 2
    /\ Len(diff.list) = 3
    /\ diff.list[3].v # diff.prev[1].v

\* the change stream of a path reported an error in this step
ErrorStep == handler.pc = "idle" /\ handler'.pc = "notify"
\* the error handler returned in this step
ErrorDone == handler.pc = "notify" /\ handler'.pc = "idle"

\* C8: when the change stream of a path reports an error (from the top-level
\* listener or from a nested listener) no listener and no options watcher of
\* the path is left subscribed and syncEnabled and syncing are false; when the
\* error handler returns, the error callback of every subscriber registered
\* at the moment of the error has been invoked and the subscriber list of the
\* path is empty.
C8_ErrorStopsNotifiesClears ==
    [][/\ ErrorStep =>
            LET p == handler'.path
            IN /\ ~collections'[p].syncEnabled /\ ~collections'[p].syncing
               /\ \A l \in DOMAIN listeners' : listeners'[l].path # p
               /\ \A w \in DOMAIN watchers' : watchers'[w] # p
               /\ collectionsInfo'[p].unsubscribeFromSync = 0
               /\ collectionsInfo'[p].unsubscribeFromCollectionOptions = 0
       /\ ErrorDone =>
            /\ Range(handler.atError) \subseteq handler.notified
            /\ collectionsInfo'[handler.path].collectionSubscribers = <<>>]_vars

\* C9: a listener is opened for a path whose sync is disabled only by a
\* sync(path) call: a step that opens a listener for a path that was not
\* sync-enabled creates a subscriber. In particular a debounce timer and an
\* options change that come after a stream error open none.
C9_NoAutomaticRetry ==
    [][\A l \in NewListeners :
            ~SyncEnabled(Core, listeners'[l].path) => SyncStep]_vars

\* after a stream error the path is disabled, a debounce timer from before the
\* error is pending and a watcher callback queued by an options change is
\* about to run
C9_Witness ==
    \E p \in Paths :
        /\ p \in DOMAIN collections /\ ~collections[p].syncEnabled
        /\ subscriberPath # <<>> /\ Subscribers(p) = <<>>
        /\ timers # <<>>
        /\ queued # <<>> /\ Head(queued) \in DOMAIN watchers

\* the callback of an active watcher of a sync-enabled path ran in this step
RestartStep ==
    /\ queued # <<>> /\ queued' = Tail(queued)
    /\ Head(queued) \in DOMAIN watchers
    /\ SyncEnabled(Core, watchers[Head(queued)])

\* C10: when the options of a sync-enabled path change, the listener and the
\* watcher whose handles the path stores are unsubscribed and exactly one new
\* listener (with no nested listeners yet) and one new watcher are opened for
\* the path; the subscriber list is unchanged, no error callback runs, and
\* the path has syncEnabled=true and syncing=true.
C10_OptionsChangeRestarts ==
    [][RestartStep =>
        LET p == watchers[Head(queued)]
            info == collectionsInfo[p]
            listener == collectionsInfo'[p].unsubscribeFromSync
            watcher == collectionsInfo'[p].unsubscribeFromCollectionOptions
        IN /\ info.unsubscribeFromSync \notin DOMAIN listeners'
           /\ info.unsubscribeFromCollectionOptions \notin DOMAIN watchers'
           /\ NewListeners = {listener}
           /\ listeners'[listener] = [listeners'[listener] EXCEPT
                    !.path = p, !.alive = TRUE, !.fresh = TRUE, !.nested = Empty]
           /\ {l \in DOMAIN listeners' : listeners'[l].path = p} = {listener}
           /\ DOMAIN watchers' \ DOMAIN watchers = {watcher}
           /\ watchers'[watcher] = p
           /\ collectionsInfo'[p].collectionSubscribers = info.collectionSubscribers
           /\ handler' = handler /\ handler = Idle
           /\ collections'[p].syncEnabled /\ collections'[p].syncing]_vars

\* a path with two subscribers and a loaded list was restarted by an options
\* change: second listener and second watcher, syncing again
C10_Witness ==
    \E p \in Paths :
        /\ Quiet
        /\ p \in DOMAIN collections
        /\ collections[p].syncEnabled /\ collections[p].syncing
        /\ collections[p].list # <<>>
        /\ Len(Subscribers(p)) = 2
        /\ DOMAIN listeners = {2}
        /\ DOMAIN watchers = {2}

ActiveListeners(p) == {l \in DOMAIN listeners : listeners[l].path = p /\ listeners[l].alive}
ActiveWatchers(p) == {w \in DOMAIN watchers : watchers[w] = p}

\* C11: in every reachable state a sync-enabled path has exactly one active
\* top-level listener and exactly one active options watcher, both the ones
\* whose handles the path stores; a path that is not sync-enabled (or has no
\* record) has no active listener and no active watcher.
C11_OneListenerOneWatcher ==
    \A p \in Paths :
        IF SyncEnabled(Core, p)
        THEN /\ ActiveListeners(p) = {collectionsInfo[p].unsubscribeFromSync}
             /\ ActiveWatchers(p) = {collectionsInfo[p].unsubscribeFromCollectionOptions}
        ELSE /\ ActiveListeners(p) = {}
             /\ ActiveWatchers(p) = {}

\* the listener P of the subscription tree processed a snapshot in this step
SnapshotStep(P) ==
    /\ P \in DOMAIN tree.listeners /\ tree.listeners[P].alive
    /\ P \in DOMAIN tree'.listeners
    /\ \/ tree'.listeners[P].view # tree.listeners[P].view
       \/ tree'.listeners[P].fresh # tree.listeners[P].fresh

ViewIds(L, P) == {L[P].view[i].id : i \in DOMAIN L[P].view}
NestedKey(P, d, sub) == P \o <<d, sub.collectionPath>>
ActiveBelow(L, key) == {k \in DOMAIN L : IsPrefix(key, k) /\ L[k].alive}

\* C12: when a listener of a subscription that is still subscribed has
\* processed a snapshot, then for every subcollection configured for it the
\* documents with an active nested listener are exactly the documents of its
\* result set: an added document has one new nested listener (nothing of an
\* earlier listener of that path is active), no listener below a removed
\* document is active, and a document that stays keeps its listener.
C12_NestedListenersFollowResult ==
    [][\A P \in DOMAIN tree.listeners :
        (SnapshotStep(P) /\ tree'.listeners[P].alive) =>
            \A sub \in Range(OptionsAt(TreeOptions, P).subcollections) :
                LET L == tree.listeners
                    M == tree'.listeners
                IN /\ {d \in TreeIds(P) : NestedKey(P, d, sub) \in DOMAIN M
                                            /\ M[NestedKey(P, d, sub)].alive} = ViewIds(M, P)
                   /\ \A d \in ViewIds(M, P) \ ViewIds(L, P) :
                        /\ M[NestedKey(P, d, sub)] = [alive |-> TRUE, fresh |-> TRUE, view |-> <<>>]
                        /\ ActiveBelow(M, NestedKey(P, d, sub)) = {NestedKey(P, d, sub)}
                   /\ \A d \in ViewIds(L, P) \ ViewIds(M, P) :
                        ActiveBelow(M, NestedKey(P, d, sub)) = {}
                   /\ \A d \in ViewIds(L, P) \cap ViewIds(M, P) :
                        M[NestedKey(P, d, sub)] = L[NestedKey(P, d, sub)]]_vars

\* two documents in the result of the root listener, nested listeners of both
\* subcollections for each, and a listener two levels down
C12_Witness ==
    /\ ~tree.unsubscribed
    /\ <<>> \in DOMAIN tree.listeners
    /\ Len(tree.listeners[<<>>].view) = 2
    /\ \A d \in DocIds : \A s \in {"s", "u"} :
            <<d, s>> \in DOMAIN tree.listeners /\ tree.listeners[<<d, s>>].alive
    /\ <<"a", "s", "x", "t">> \in DOMAIN tree.listeners
    /\ tree.listeners[<<"a", "s", "x", "t">>].alive
    /\ ~tree.listeners[<<"b", "u">>].fresh

\* C13: once the unsubscribe function returned by subscribeToCollection has
\* been called, no listener of the subscription tree is active, at any depth:
\* the call closes all of them and none is opened afterwards.
C13_UnsubscribedTreeIsClosed ==
    tree.unsubscribed => \A k \in DOMAIN tree.listeners : ~tree.listeners[k].alive

\* the name the options give the subcollection with collection path `ref`
NameOf(options, ref) ==
    (CHOOSE o \in Range(options.subcollections) : o.collectionPath = ref).name

NoList == <<[none |-> TRUE]>>

\* the list a reference path addresses in a root list: follow the ids and the
\* subcollections; NoList if a document or a list on the way is missing
RECURSIVE ListAt(_, _, _)
ListAt(list, options, refPath) ==
    IF refPath = <<>> THEN list
    ELSE IF \A i \in DOMAIN list : list[i].id # refPath[1] THEN NoList
    ELSE LET doc == list[CHOOSE i \in DOMAIN list : list[i].id = refPath[1]]
             name == NameOf(options, refPath[2])
         IN IF name \notin DOMAIN doc THEN NoList
            ELSE ListAt(doc[name], OptionsAt(options, SubSeq(refPath, 1, 2)),
                        SubSeq(refPath, 3, Len(refPath)))

\* the root list with the list a reference path addresses replaced by X and
\* everything else as it is
RECURSIVE ReplaceAt(_, _, _, _)
ReplaceAt(list, options, refPath, X) ==
    IF refPath = <<>> THEN X
    ELSE [i \in DOMAIN list |->
            IF list[i].id = refPath[1]
            THEN [k \in DOMAIN list[i] |->
                    IF k = NameOf(options, refPath[2])
                    THEN ReplaceAt(list[i][k], OptionsAt(options, SubSeq(refPath, 1, 2)),
                                   SubSeq(refPath, 3, Len(refPath)), X)
                    ELSE list[i][k]]
            ELSE list[i]]

\* C14: an event reported with reference path [id1, sub1, ..., idk, subk]
\* changes only the list stored under the name of subk in the document reached
\* from the root list by the ids and subcollections of the path (the root list
\* itself for the empty path): that list then holds the documents of the
\* listener's result, and every other document and list is unchanged.
C14_EventChangesAddressedListOnly ==
    [][\A P \in DOMAIN tree.listeners : SnapshotStep(P) =>
        LET target == ListAt(tree'.list, TreeOptions, P)
        IN /\ target # NoList
           /\ Plain(target) = tree'.listeners[P].view
           /\ tree'.list = ReplaceAt(tree.list, TreeOptions, P, target)]_vars

\* events with the paths [a, s], [a, s, x, t] and [b, u] have been applied:
\* the lists "items" of a, "t" of its document x and "u" of b hold a document
C14_Witness ==
    /\ Len(tree.list) = 2
    /\ tree.list[1].id = "a" /\ tree.list[2].id = "b"
    /\ Len(tree.list[1].items) = 1
    /\ Len(tree.list[1].items[1].t) = 1
    /\ tree.list[1].u = <<>>
    /\ tree.list[2].items = <<>>
    /\ Len(tree.list[2].u) = 1

\* C15: every triple subscribeToDocument reports can be passed to
\* updateDocumentFromSnapshot with the same options: once the caller has the
\* document the call does not throw, and an event of a subcollection is applied to the document's own list of that subcollection, which then
\* holds the documents of that listener's result.
C15_DocumentEventsApply ==
    mirror.last # <<>> =>
        LET e == mirror.last[1]
        IN /\ (e.isDocument \/ e.hadDocument) => e.status # "threw"
           /\ (~e.isDocument /\ e.hadDocument /\ Len(e.refPath) = 2) =>
                /\ e.status = "applied"
                /\ Plain(mirror.document[1][NameOf(TreeOptions, e.refPath[2])])
                        = mirror.listeners[e.refPath].view

\* a step of a stop without reset, of a start or of a restart: a debounce
\* timer fired, the error handler ran, a watcher callback ran, sync was called
StopOrStartStep ==
    \/ TimerStep
    \/ handler # Idle \/ handler' # Idle
    \/ queued # <<>>
    \/ SyncStep

\* C16: stopping sync without reset and starting it again keep the record of
\* the path and leave its list unchanged: the record is not removed by a
\* debounce timer, a stream error, an options change or a sync call, however
\* often sync is enabled and disabled, and the list of a record changes only
\* when an event of the path's current listener is processed.
C16_StopKeepsRecordAndList ==
    [][\A p \in DOMAIN collections :
        /\ StopOrStartStep => p \in DOMAIN collections'
        /\ (p \in DOMAIN collections' /\ collections'[p].list # collections[p].list) =>
                \E l \in DOMAIN listeners :
                    /\ EventStep(l)
                    /\ listeners[l].path = p
                    /\ collectionsInfo[p].unsubscribeFromSync = l]_vars

\* sync was stopped by a stream error, which cleared the first subscriber, and
\* started again by a second sync call: the list still holds the documents of
\* the first listener while the new listener has not reported yet
C16_Witness ==
    \E p \in Paths :
        /\ Quiet
        /\ p \in DOMAIN collections
        /\ collections[p].syncEnabled /\ collections[p].syncing
        /\ collections[p].list # <<>>
        /\ Subscribers(p) = <<2>>
        /\ ~subscriberPath[1].called
        /\ \A l \in DOMAIN listeners : listeners[l].fresh

\* C17: an explicit reset, stopCollectionSync(path, true), removes the record
\* of the path and its bookkeeping entry whatever the sync state of the path
\* was: right after the reset the path has no record, no list and no entry.
C17_ResetRemovesRecord ==
    phase = "reset" =>
        \A p \in Paths : p \notin DOMAIN collections /\ p \notin DOMAIN collectionsInfo

\* ------------------------------------ plugins/vuex/vuex-decorators.ts (compiler)
\* One VuexModule instance.  A namespace is [defined, path]: path holds the
\* '/'-separated segments, and defined = FALSE is the undefined namespace.
\* A member is [decl, value]: decl is the metadata its decorator stored, value
\* what the property currently holds.  A registered handler records in calls
\* the function it captured.

MaxCalls == 2

Unset == [defined |-> FALSE, path |-> <<>>]

Namespace(path) == [defined |-> TRUE, path |-> path]

initModuleAction == "__initVuexModule__"

\* the property keys of the instance, in getAllPropertyKeys order
PropertyKeys == <<"p", "q">>

NoDecl == [kind |-> "none"]

Data == [type |-> "data", v |-> 0]

Function(name) == [type |-> "function", f |-> name]

\* what one member of a module class can be
MemberShapes(propertyName) ==
    {[decl |-> NoDecl, value |-> Data],
     [decl |-> NoDecl, value |-> Function(propertyName)],
     [decl |-> [kind |-> "state", name |-> propertyName], value |-> Data],
     [decl |-> [kind |-> "getter", name |-> propertyName, get |-> TRUE],
      value |-> [type |-> "accessor", f |-> propertyName]],
     [decl |-> [kind |-> "mutation", name |-> propertyName], value |-> Function(propertyName)],
     [decl |-> [kind |-> "mutation", name |-> propertyName], value |-> Data],
     [decl |-> [kind |-> "action", name |-> propertyName, root |-> FALSE], value |-> Function(propertyName)],
     [decl |-> [kind |-> "action", name |-> propertyName, root |-> TRUE], value |-> Function(propertyName)],
     [decl |-> [kind |-> "action", name |-> propertyName, root |-> FALSE], value |-> Data]}

\* this[propertyName]: a state accessor reads the state object
ReadMember(M, propertyName) ==
    LET value == M.members[propertyName].value
    IN IF value.type = "stateAccessor" THEN M.state[value.name] ELSE value

\* the test of typeof left out
IsAnyValue(value) == TRUE

IsFunction(value) == value.type \in {"function", "commit", "dispatch"}

namespacePrefix(M) == IF M.namespace.defined THEN M.namespace.path ELSE <<>>

contextNamespacePrefix(M) ==
    IF M.module.namespaced = <<TRUE>> THEN <<>> ELSE namespacePrefix(M)

\* the body of the loop over the property keys
compileMember(M, propertyName) ==
    LET decl == M.members[propertyName].decl
        value == ReadMember(M, propertyName)
    IN  IF decl.kind = "state"
        THEN [M EXCEPT !.state = Put(@, decl.name, value),
                       !.members[propertyName].value = [type |-> "stateAccessor", name |-> decl.name]]
        ELSE IF decl.kind = "getter" /\ decl.get
        THEN [M EXCEPT !.members[propertyName].value = [type |-> "getterAccessor", name |-> decl.name],
                       !.module.getters = Put(@, decl.name, [calls |-> [type |-> "accessor", f |-> propertyName]])]
        ELSE IF decl.kind = "mutation" /\ IsFunction(value)
        THEN [M EXCEPT !.members[propertyName].value =
                           [type |-> "commit", name |-> contextNamespacePrefix(M) \o <<decl.name>>],
                       !.module.mutations = Put(@, decl.name, [calls |-> value])]
        ELSE IF decl.kind = "action" /\ IsFunction(value)
        THEN [M EXCEPT !.members[propertyName].value =
                           [type |-> "dispatch",
                            name |-> (IF decl.root THEN <<>> ELSE contextNamespacePrefix(M)) \o <<decl.name>>],
                       !.module.actions = Put(@, decl.name, [root |-> FALSE, calls |-> value])]
        ELSE M

RECURSIVE compileMembers(_, _)
compileMembers(M, keys) ==
    IF keys = <<>> THEN M
    ELSE compileMembers(compileMember(M, Head(keys)), Tail(keys))

\* initVuexModule without the check of the flag
initVuexModuleAgain(M) ==
    compileMembers(
        [M EXCEPT !._vuexModuleInitialized = TRUE,
                  !.module.namespaced = IF @ = <<>> THEN <<TRUE>> ELSE @,
                  !.module.actions = Put(@, initModuleAction,
                                         [root |-> TRUE, calls |-> [type |-> "bootstrap"]])],
        PropertyKeys)

initVuexModule(M) ==
    IF M._vuexModuleInitialized THEN M
    ELSE compileMembers(
            [M EXCEPT !._vuexModuleInitialized = TRUE,
                      !.module.namespaced = IF @ = <<>> THEN <<TRUE>> ELSE @,
                      !.module.actions = Put(@, initModuleAction,
                                             [root |-> TRUE, calls |-> [type |-> "bootstrap"]])],
            PropertyKeys)

\* the instance after construction
NewVuexModule(namespace, namespaced, members) ==
    [namespace |-> namespace,
     module |-> [namespaced |-> namespaced, getters |-> Empty,
                 mutations |-> Empty, actions |-> Empty],
     state |-> Empty,
     members |-> members,
     _vuexModuleInitialized |-> FALSE]

CompilerFrame ==
    UNCHANGED <<collections, collectionsInfo, listeners, watchers,
                subscriberPath, timers, queued, handler, phase, diff, tree,
                mirror, plugin, proxy, wrapper, store>>

InitCompiler ==
    /\ collections = Empty
    /\ collectionsInfo = Empty
    /\ listeners = {}
    /\ watchers = {}
    /\ subscriberPath = Empty
    /\ timers = {}
    /\ queued = <<>>
    /\ handler = [mode |-> "none"]
    /\ phase = "off"
    /\ diff = NoDiff
    /\ tree = NoTree
    /\ mirror = NoMirror
    /\ plugin = NoPlugin
    /\ proxy = NoProxy
    /\ wrapper = NoWrapper
    /\ store = NoStore
    /\ \E namespace \in {Unset, Namespace(<<"m">>)}, namespaced \in {<<>>, <<TRUE>>, <<FALSE>>},
          p \in MemberShapes("p"), q \in MemberShapes("q") :
            compiler = [calls |-> 0,
                        instance |-> NewVuexModule(namespace, namespaced,
                                                   [k \in {"p", "q"} |-> IF k = "p" THEN p ELSE q])]

\* a call of this.initVuexModule(), from the constructor or later
CompilerInit ==
    /\ compiler.calls < MaxCalls
    /\ compiler' = [calls |-> compiler.calls + 1, instance |-> initVuexModule(compiler.instance)]
    /\ CompilerFrame

\* unwrapStateRecursively meets the marker of the instance under key "k"
CompilerWalk ==
    /\ ~compiler.instance.namespace.defined
    /\ compiler' = [compiler EXCEPT !.instance.namespace = Namespace(<<"k">>)]
    /\ CompilerFrame

NextCompiler == CompilerInit \/ CompilerWalk

SpecCompiler == InitCompiler /\ [][NextCompiler]_vars

\* C18: a call of initVuexModule on an instance that is already compiled
\* changes nothing of the instance (its getter, mutation and action maps, its
\* state object and its replaced members stay as the first call left them),
\* and no registered handler calls a generated commit or dispatch wrapper.
C18_InitVuexModuleIdempotent ==
    [][(compiler'.calls = compiler.calls + 1 /\ compiler.instance._vuexModuleInitialized)
        => /\ compiler'.instance = compiler.instance
           /\ \A kind \in {"mutations", "actions"} :
                \A name \in DOMAIN compiler'.instance.module[kind] :
                    compiler'.instance.module[kind][name].calls.type \notin {"commit", "dispatch"}]_vars

C18_Witness ==
    /\ compiler.calls = 2
    /\ DOMAIN compiler.instance.module.mutations # {}
    /\ \E name \in DOMAIN compiler.instance.module.actions : name # initModuleAction
    /\ compiler.instance.members["p"].value.type \in {"commit", "dispatch"}

\* -------------------------------------- plugins/vuex/vuex-decorators.ts (plugin)
\* The state tree of the store.  A node is a primitive value, a plain object
\* [keys, at] whose keys are in enumeration order, or the wrapped state of a
\* module: the marker object {[symbols.vuexModule]: module} that getModule()
\* hands to the container.  The container stores the state of a module listed
\* in module.modules as a property of the parent's state object, which for a
\* VuexModule parent is its marker object, so a marker has keys as well.
\* plugin.mods holds, for every module, its namespace and its state field.

ModuleIds == {"A", "B"}

Value == [kind |-> "value"]

Object(keys, at) == [kind |-> "object", keys |-> keys, at |-> at]

Marker(module, keys, at) == [kind |-> "marker", module |-> module, keys |-> keys, at |-> at]

\* wrapState(module)
wrapState(module) == Marker(module, <<>>, Empty)

One(key, node) == [k \in {key} |-> node]

\* lines 397-399, the assignment made at every marker
assignNamespaceAlways(module, namespace) == [module EXCEPT !.namespace = namespace]

assignNamespace(module, namespace) ==
    IF module.namespace.defined THEN module ELSE [module EXCEPT !.namespace = namespace]

RECURSIVE unwrapStateRecursively(_, _, _, _)
RECURSIVE unwrapProperties(_, _, _, _, _)

\* the for-in loop over the own properties of a plain object
unwrapProperties(obj, keys, namespace, mods, modules) ==
    IF keys = <<>> THEN [value |-> obj, mods |-> mods, modules |-> modules]
    ELSE LET propertyName == Head(keys)
             propertyNamespace == IF ~namespace.defined THEN Namespace(<<propertyName>>)
                                  ELSE Namespace(namespace.path \o <<propertyName>>)
             r == unwrapStateRecursively(obj.at[propertyName], propertyNamespace, mods, modules)
         IN unwrapProperties([obj EXCEPT !.at[propertyName] = r.value],
                             Tail(keys), namespace, r.mods, r.modules)

\* returns the unwrapped value with the modules as the walk leaves them and
\* the list of discovered modules
unwrapStateRecursively(obj, namespace, mods, modules) ==
    IF obj.kind = "value" THEN [value |-> obj, mods |-> mods, modules |-> modules]
    ELSE IF obj.kind = "marker"
    THEN LET vuexModule == obj.module
             assigned == [mods EXCEPT ![vuexModule] = assignNamespace(@, namespace)]
             r == unwrapStateRecursively(assigned[vuexModule].state, namespace,
                                         assigned, Append(modules, vuexModule))
         IN [value |-> r.value,
             mods |-> [r.mods EXCEPT ![vuexModule].state = r.value],
             modules |-> r.modules]
    ELSE unwrapProperties(obj, obj.keys, namespace, mods, modules)

\* what a property of the root state or of a plain object can hold
ChildShapes ==
    {Value,
     wrapState("A"),
     wrapState("B"),
     Marker("A", <<"n">>, One("n", wrapState("B"))),
     Object(<<"c">>, One("c", wrapState("B")))}

RootShapes ==
    {Object(<<"a", "b">>, [k \in {"a", "b"} |-> IF k = "a" THEN a ELSE b]) :
        a \in ChildShapes, b \in ChildShapes}
    \cup {wrapState("A"), Marker("A", <<"n">>, One("n", wrapState("B")))}

\* the state field of a module before the walk
ModuleStates(module) ==
    {Object(<<>>, Empty), Object(<<"s">>, One("s", Value))}
    \cup (IF module = "A" THEN {Object(<<"k">>, One("k", wrapState("B")))} ELSE {})

\* The markers of a tree in pre-order of the own-key enumeration, each with
\* the key path from the root, appended to acc.  A marker is followed by the
\* markers of the state of its module, unless the module was met before (its
\* state is one object, unwrapped at the first marker), and, when own is TRUE,
\* by those under the keys of the marker object itself.
RECURSIVE MarkersOf(_, _, _, _, _)
RECURSIVE MarkersUnder(_, _, _, _, _, _)

MarkersUnder(node, keys, path, mods, own, acc) ==
    IF keys = <<>> THEN acc
    ELSE MarkersUnder(node, Tail(keys), path, mods, own,
                      MarkersOf(node.at[Head(keys)], path \o <<Head(keys)>>, mods, own, acc))

MarkersOf(node, path, mods, own, acc) ==
    IF node.kind = "value" THEN acc
    ELSE IF node.kind = "marker"
    THEN LET met == \E i \in DOMAIN acc : acc[i].module = node.module
             here == Append(acc, [module |-> node.module, path |-> path])
             inState == IF met THEN here
                        ELSE MarkersOf(mods[node.module].state, path, mods, own, here)
         IN IF own THEN MarkersUnder(node, node.keys, path, mods, own, inState) ELSE inState
    ELSE MarkersUnder(node, node.keys, path, mods, own, acc)

\* the modules handed to the container with getModule(): those whose wrapped
\* state is in the tree or in the state of such a module
Registered(root, mods) ==
    LET L == MarkersOf(root, <<>>, mods, TRUE, <<>>)
    IN {L[i].module : i \in DOMAIN L}

PluginFrame ==
    UNCHANGED <<collections, collectionsInfo, listeners, watchers,
                subscriberPath, timers, queued, handler, phase, diff, tree,
                mirror, compiler, proxy, wrapper, store>>

\* the store is constructed and the plugin is about to run
InitPlugin ==
    /\ collections = Empty
    /\ collectionsInfo = Empty
    /\ listeners = {}
    /\ watchers = {}
    /\ subscriberPath = Empty
    /\ timers = {}
    /\ queued = <<>>
    /\ handler = [mode |-> "none"]
    /\ phase = "off"
    /\ diff = NoDiff
    /\ tree = NoTree
    /\ mirror = NoMirror
    /\ compiler = NoCompiler
    /\ proxy = NoProxy
    /\ wrapper = NoWrapper
    /\ store = NoStore
    /\ \E root \in RootShapes, sA \in ModuleStates("A"), sB \in ModuleStates("B"),
          nA \in {Unset, Namespace(<<"x">>)}, nB \in {Unset, Namespace(<<"y">>)},
          asyncInit \in SUBSET ModuleIds :
            LET mods == [m \in ModuleIds |->
                            IF m = "A" THEN [namespace |-> nA, state |-> sA]
                            ELSE [namespace |-> nB, state |-> sB]]
            IN plugin = [pc |-> "installed",
                         state |-> root,
                         mods |-> mods,
                         modules |-> <<>>,
                         registered |-> Registered(root, mods),
                         asyncInit |-> asyncInit,
                         installed |-> {},
                         inits |-> <<>>,
                         running |-> {}]

\* the mutation __VuexModule_unwrapState
PluginUnwrap ==
    /\ plugin.pc = "installed"
    /\ LET r == unwrapStateRecursively(plugin.state, Unset, plugin.mods, <<>>)
       IN plugin' = [plugin EXCEPT !.pc = "unwrapped", !.state = r.value,
                                   !.mods = r.mods, !.modules = r.modules]
    /\ PluginFrame

\* store.dispatch(initModuleAction, store) runs the bootstrap handler of one
\* registered module: it installs the module's context and store
PluginBootstrap ==
    /\ plugin.pc = "unwrapped"
    /\ \E m \in plugin.registered \ plugin.installed :
        plugin' = [plugin EXCEPT !.installed = @ \cup {m}]
    /\ PluginFrame

\* every handler has returned: the promise of the dispatch is fulfilled
PluginDispatched ==
    /\ plugin.pc = "unwrapped"
    /\ plugin.installed = plugin.registered
    /\ plugin' = [plugin EXCEPT !.pc = "dispatched"]
    /\ PluginFrame

\* the loop over the discovered modules starts after the awaited dispatch
canInitBeforeDispatch(P) == P.pc \in {"unwrapped", "dispatched"}

canInit(P) == P.pc = "dispatched"

\* module.init() of the next discovered module; the call is not awaited, so
\* an asynchronous hook is still running when the call returns
PluginInit ==
    /\ canInit(plugin)
    /\ Len(plugin.inits) < Len(plugin.modules)
    /\ LET module == plugin.modules[Len(plugin.inits) + 1]
       IN plugin' = [plugin EXCEPT !.inits = Append(@, module),
                                   !.running = IF module \in plugin.asyncInit
                                               THEN @ \cup {module} ELSE @]
    /\ PluginFrame

\* an asynchronous init() hook completes
PluginInitDone ==
    /\ \E m \in plugin.running : plugin' = [plugin EXCEPT !.running = @ \ {m}]
    /\ PluginFrame

NextPlugin == PluginUnwrap \/ PluginBootstrap \/ PluginDispatched \/ PluginInit \/ PluginInitDone

SpecPlugin == InitPlugin /\ [][NextPlugin]_vars

\* the namespace of a position: the key path, undefined at the root
PositionNamespace(path) == IF path = <<>> THEN Unset ELSE Namespace(path)

\* the path of the first marker of module m in the list L
FirstPath(L, m) ==
    L[CHOOSE i \in DOMAIN L : L[i].module = m /\ \A j \in 1..(i - 1) : L[j].module # m].path

UnwrapStep == plugin.pc = "installed" /\ plugin'.pc = "unwrapped"

\* C19: the walk leaves the namespace of a module that had one as it was, and
\* a module without a namespace that the walk meets at several positions
\* keeps the namespace of the first position.
C19_NamespaceAssignedOnlyIfUnset ==
    [][UnwrapStep =>
        LET W == MarkersOf(plugin.state, <<>>, plugin.mods, FALSE, <<>>)
        IN \A m \in ModuleIds :
            /\ plugin.mods[m].namespace.defined
                => plugin'.mods[m].namespace = plugin.mods[m].namespace
            /\ (~plugin.mods[m].namespace.defined /\ \E i \in DOMAIN W : W[i].module = m)
                => plugin'.mods[m].namespace = PositionNamespace(FirstPath(W, m))]_vars

\* a walk has met a module with an explicit namespace and another module twice
C19_Witness ==
    /\ plugin.pc = "unwrapped"
    /\ \E i \in DOMAIN plugin.modules :
        plugin.mods[plugin.modules[i]].namespace \in {Namespace(<<"x">>), Namespace(<<"y">>)}
    /\ \E i, j \in DOMAIN plugin.modules :
        /\ i < j
        /\ plugin.modules[i] = plugin.modules[j]
        /\ plugin.mods[plugin.modules[i]].namespace \notin {Unset, Namespace(<<"x">>), Namespace(<<"y">>)}

\* the node at a key path of a tree of plain objects, <<>> when there is none
RECURSIVE NodeAt(_, _)
NodeAt(node, path) ==
    IF path = <<>> THEN <<node>>
    ELSE IF node.kind = "object" /\ Head(path) \in DOMAIN node.at
    THEN NodeAt(node.at[Head(path)], Tail(path))
    ELSE <<>>

\* C20: the discovered list is the list of the markers of the initial tree in
\* pre-order of the own-key enumeration; a module that had no namespace has
\* the key path of its first marker; and at the path of every marker the
\* replaced tree holds the unwrapped state of the marker's module.
C20_PreOrderPathsAndReplacement ==
    [][UnwrapStep =>
        LET L == MarkersOf(plugin.state, <<>>, plugin.mods, TRUE, <<>>)
        IN /\ plugin'.modules = [i \in DOMAIN L |-> L[i].module]
           /\ \A i \in DOMAIN L :
                /\ ~plugin.mods[L[i].module].namespace.defined
                    => plugin'.mods[L[i].module].namespace
                        = PositionNamespace(FirstPath(L, L[i].module))
                /\ NodeAt(plugin'.state, L[i].path) = <<plugin'.mods[L[i].module].state>>
                /\ MarkersOf(plugin'.mods[L[i].module].state, <<>>, plugin'.mods, TRUE, <<>>) = <<>>]_vars

\* C21: a bootstrap handler has run only on an unwrapped tree, one without a
\* module marker, and an init() hook has run only after the bootstrap handler
\* of every discovered module has installed its store and context.
C21_UnwrapThenBootstrapThenInit ==
    /\ plugin.installed # {} =>
        /\ plugin.pc # "installed"
        /\ MarkersOf(plugin.state, <<>>, plugin.mods, TRUE, <<>>) = <<>>
    /\ plugin.inits # <<>> =>
        /\ MarkersOf(plugin.state, <<>>, plugin.mods, TRUE, <<>>) = <<>>
        /\ \A i \in DOMAIN plugin.modules : plugin.modules[i] \in plugin.installed

\* two modules were discovered and bootstrapped and the first init() has run
C21_Witness ==
    /\ plugin.pc = "dispatched"
    /\ Len(plugin.inits) = 1
    /\ {plugin.modules[i] : i \in DOMAIN plugin.modules} = ModuleIds
    /\ plugin.installed = ModuleIds

InitStep == plugin'.inits # plugin.inits

\* C22: a call of init() is the first one for its module, the calls follow
\* the discovery order, and no earlier init() is still running when a call
\* begins.
C22_InitOncePerModuleInOrder ==
    [][InitStep =>
        LET module == plugin'.inits[Len(plugin'.inits)]
        IN /\ module \notin Range(plugin.inits)
           /\ \A i \in DOMAIN plugin.modules :
                (\A j \in 1..(i - 1) : plugin.modules[j] # module) /\ plugin.modules[i] = module
                    => \A j \in 1..(i - 1) : plugin.modules[j] \in Range(plugin.inits)
           /\ plugin.running = {}]_vars

\* the members of the compiled instance that were declared as mutations on a
\* function
CompiledMutations ==
    {p \in DOMAIN compiler.instance.members :
        /\ compiler.instance.members[p].decl.kind = "mutation"
        /\ compiler.instance.members[p].value.type = "commit"}

\* C23: for every declared mutation of a compiled instance the handler that
\* calls the member's function is registered under the namespace prefix
\* followed by the declared name, the prefix being empty exactly when the
\* module is namespaced by the container, and the replaced member commits to
\* the name the handler is registered under.
C23_MemberCommitsToRegisteredKey ==
    compiler.calls > 0 =>
        \A p \in CompiledMutations :
            LET M == compiler.instance
                name == M.members[p].decl.name
            IN \E key \in DOMAIN M.module.mutations :
                /\ M.module.mutations[key].calls = Function(p)
                /\ <<key>> = contextNamespacePrefix(M) \o <<name>>
                /\ M.members[p].value.name = <<key>>

FirstCompileStep ==
    compiler'.calls = compiler.calls + 1 /\ ~compiler.instance._vuexModuleInitialized

\* a member without a declaration, or declared a mutation or an action on a
\* value that is not a function
Skipped(member) ==
    \/ member.decl.kind = "none"
    \/ member.decl.kind \in {"mutation", "action"} /\ member.value.type = "data"

\* what the compiler makes of a well-formed declared member
CompiledType(member) ==
    IF member.decl.kind = "state" THEN "stateAccessor"
    ELSE IF member.decl.kind = "getter" THEN "getterAccessor"
    ELSE IF member.decl.kind = "mutation" THEN "commit"
    ELSE "dispatch"

\* C24: the first initVuexModule call leaves a member that has no declaration,
\* or whose mutation or action declaration sits on a value that is not a
\* function, as it was and registers no getter, mutation or action for it,
\* and it compiles every other member.
C24_MisshapedMembersSkipped ==
    [][FirstCompileStep =>
        /\ compiler'.instance._vuexModuleInitialized
        /\ \A p \in DOMAIN compiler.instance.members :
            LET member == compiler.instance.members[p]
                after == compiler'.instance
            IN IF Skipped(member)
               THEN /\ after.members[p] = member
                    /\ p \notin DOMAIN after.module.getters
                    /\ p \notin DOMAIN after.module.mutations
                    /\ p \notin DOMAIN after.module.actions
               ELSE after.members[p].value.type = CompiledType(member)]_vars

\* a mutation declared on a value that is not a function was skipped and the
\* other member was compiled
C24_Witness ==
    /\ compiler.calls = 1
    /\ compiler.instance.members["p"].decl.kind = "mutation"
    /\ compiler.instance.members["p"].value = Data
    /\ compiler.instance.members["q"].value.type = "dispatch"

\* ------------------------ plugins/vuex/vuex-decorators.ts, js/proxy.ts (proxies)
\* The state of one module and its table _proxyObjects.  A value of the state
\* is a primitive, undefined, a plain object, an object that is not JSON
\* compatible (raw, with the identity o), a proxy made by
\* createNonEnumerableProxy (its id and its target; an object is wrapped at
\* most once, so the two identify the proxy), or a structural copy of a proxy,
\* which keeps the enumerable __proxy_id and has lost the target.  The root of
\* the state is a plain object.  A table maps an id to a proxy or to undefined.

Tokens == {"t1", "t2"}

MaxTries == 100

MaxObjects == 2

StateKeys == <<"a", "b">>

Undefined == [kind |-> "undefined"]

Raw(o) == [kind |-> "raw", o |-> o]

Copy(id) == [kind |-> "copy", id |-> id]

createNonEnumerableProxy(obj, id) == [kind |-> "proxy", id |-> id, target |-> obj]

\* the test of the target symbol left out
isProxyNever(obj) == FALSE

isProxy(obj) == obj.kind = "proxy"

isProxyWithoutTarget(obj) == obj.kind = "copy"

\* a proxy reports the prototype of its target and a __proxy_id that is not
\* writable
isJsonIncompatible(obj) == obj.kind \in {"raw", "proxy"}

\* The random strings of one call: the first draw.collisions candidates are
\* ids of the tables (when they hold any), the later ones are draw.token.
\* the candidate number drawn + 1 is in one of the tables
Collides(taken, draw, drawn) ==
    \/ drawn < draw.collisions /\ taken # {}
    \/ draw.token \in taken

\* the first candidate returned without the test of the tables
generateProxyIdUnchecked(oldProxyObjects, newProxyObjects, draw) ==
    [status |-> "ok", id |-> draw.token, tries |-> 1]

\* the do-while loop: the candidates are tried in turn, the first that is in
\* neither table is returned, and after MaxTries of them the call throws
generateProxyId(oldProxyObjects, newProxyObjects, draw) ==
    LET taken == DOMAIN oldProxyObjects \cup DOMAIN newProxyObjects
        fresh == {try \in 1..MaxTries : ~Collides(taken, draw, try - 1)}
    IN IF fresh = {} THEN [status |-> "threw", id |-> draw.token, tries |-> MaxTries]
       ELSE [status |-> "ok", id |-> draw.token,
             tries |-> CHOOSE try \in fresh : \A other \in fresh : try <= other]

\* a lookup that finds nothing
GetNothing(table, id) == Undefined

\* Map.prototype.get
Get(table, id) == IF id \in DOMAIN table THEN table[id] ELSE Undefined

\* the draw of the next call of generateProxyId in a pass
DrawOf(draws, acc) ==
    IF acc.mints = 0 THEN [collisions |-> draws.collisions, token |-> draws.token]
    ELSE [collisions |-> 0, token |-> draws.second]

RECURSIVE initProxiesRecursively(_, _, _, _, _)
RECURSIVE initProxyProperties(_, _, _, _, _, _)

\* the loop over Object.getOwnPropertyNames(obj); obj is changed in place, so
\* an exception leaves the properties replaced so far
initProxyProperties(obj, keys, oldProxyObjects, shared, acc, draws) ==
    IF keys = <<>> THEN [status |-> "ok", value |-> obj, acc |-> acc]
    ELSE LET r == initProxiesRecursively(obj.at[Head(keys)], oldProxyObjects, shared, acc, draws)
             replaced == [obj EXCEPT !.at[Head(keys)] = r.value]
         IN IF r.status = "threw" THEN [status |-> "threw", value |-> replaced, acc |-> r.acc]
            ELSE initProxyProperties(replaced, Tail(keys), oldProxyObjects, shared, r.acc, draws)

\* acc.table is newProxyObjects; shared says that oldProxyObjects is the same
\* Map object.  acc also records the ids minted, the ids of the proxies met,
\* the ids of the copies resolved and of those not resolved, the minted ids
\* that were in a table, and the most candidates one call has tried.
initProxiesRecursively(obj, oldProxyObjects, shared, acc, draws) ==
    LET old == IF shared THEN acc.table ELSE oldProxyObjects
    IN  IF obj.kind \in {"value", "undefined"} THEN [status |-> "ok", value |-> obj, acc |-> acc]
        ELSE IF isProxy(obj)
        THEN [status |-> "ok", value |-> obj,
              acc |-> [acc EXCEPT !.table = Put(@, obj.id, obj), !.met = @ \cup {obj.id}]]
        ELSE IF isProxyWithoutTarget(obj)
        THEN LET live == Get(old, obj.id)
             IN [status |-> "ok", value |-> live,
                 acc |-> [acc EXCEPT !.table = Put(@, obj.id, live),
                                     !.met = IF live = Undefined THEN @ ELSE @ \cup {obj.id},
                                     !.resolved = IF live = Undefined THEN @ ELSE @ \cup {obj.id},
                                     !.stale = IF live = Undefined THEN @ \cup {obj.id} ELSE @]]
        ELSE IF isJsonIncompatible(obj)
        THEN LET g == generateProxyId(old, acc.table, DrawOf(draws, acc))
                 made == createNonEnumerableProxy(obj, g.id)
             IN IF g.status = "threw"
                THEN [status |-> "threw", value |-> obj, acc |-> [acc EXCEPT !.tries = Max(@, g.tries)]]
                ELSE [status |-> "ok", value |-> made,
                      acc |-> [acc EXCEPT !.table = Put(@, g.id, made),
                                          !.met = @ \cup {g.id},
                                          !.minted = @ \cup {g.id},
                                          !.mints = @ + 1,
                                          !.taken = @ \cup (IF g.id \in DOMAIN old \cup DOMAIN acc.table
                                                            THEN {g.id} ELSE {}),
                                          !.tries = Max(@, g.tries)]]
        ELSE initProxyProperties(obj, obj.keys, oldProxyObjects, shared, acc, draws)

\* the proxies of a tree
RECURSIVE ProxiesIn(_)
ProxiesIn(node) ==
    IF node.kind = "proxy" THEN {node}
    ELSE IF node.kind = "object"
    THEN UNION {ProxiesIn(node.at[k]) : k \in DOMAIN node.at}
    ELSE {}

\* initProxyObjects of the module P; production is process.env.NODE_ENV ===
\* "production".  The root stays the same object, so the state is not set.
\* clean says that the pass returned and the state was not written since;
\* last keeps the outcome of the pass with the table and the state it found.
initProxyObjects(P, draws) ==
    LET newProxyObjects == IF P.production THEN Empty ELSE P.table
        r == initProxiesRecursively(P.state, P.table, ~P.production,
                                    [table |-> newProxyObjects, minted |-> {}, met |-> {},
                                     resolved |-> {}, stale |-> {}, taken |-> {},
                                     mints |-> 0, tries |-> 0],
                                    draws)
    IN [P EXCEPT !.state = r.value,
                 !.table = IF r.status = "threw" /\ P.production THEN P.table ELSE r.acc.table,
                 !.held = @ \cup ProxiesIn(r.value),
                 !.clean = (r.status = "ok"),
                 !.last = <<[status |-> r.status, minted |-> r.acc.minted, met |-> r.acc.met,
                             resolved |-> r.acc.resolved, stale |-> r.acc.stale,
                             taken |-> r.acc.taken, tries |-> r.acc.tries,
                             before |-> P.table, prev |-> P.state,
                             wasClean |-> P.clean]>>]

ProxyFrame ==
    UNCHANGED <<collections, collectionsInfo, listeners, watchers,
                subscriberPath, timers, queued, handler, phase, diff, tree,
                mirror, compiler, plugin, wrapper, store>>

\* a bootstrapped module whose state holds primitives only
InitProxy ==
    /\ collections = Empty
    /\ collectionsInfo = Empty
    /\ listeners = {}
    /\ watchers = {}
    /\ subscriberPath = Empty
    /\ timers = {}
    /\ queued = <<>>
    /\ handler = [mode |-> "none"]
    /\ phase = "off"
    /\ diff = NoDiff
    /\ tree = NoTree
    /\ mirror = NoMirror
    /\ compiler = NoCompiler
    /\ plugin = NoPlugin
    /\ wrapper = NoWrapper
    /\ store = NoStore
    /\ \E production \in BOOLEAN :
        proxy = [production |-> production,
                 state |-> Object(StateKeys, [k \in Range(StateKeys) |-> Value]),
                 table |-> Empty,
                 held |-> {},
                 objects |-> 0,
                 clean |-> FALSE,
                 last |-> <<>>]

\* the edits of the state made by mutations and other writers
Edit(key, value) ==
    /\ proxy' = [proxy EXCEPT !.state.at[key] = value, !.clean = FALSE]
    /\ ProxyFrame

\* an object that is not JSON compatible is stored, directly or in a plain
\* object
ProxyInsert ==
    /\ proxy.objects < MaxObjects
    /\ \E key \in Range(StateKeys), nested \in BOOLEAN :
        /\ proxy' = [proxy EXCEPT
                        !.state.at[key] = IF nested
                                          THEN Object(<<"c">>, One("c", Raw(proxy.objects + 1)))
                                          ELSE Raw(proxy.objects + 1),
                        !.objects = @ + 1,
                        !.clean = FALSE]
        /\ ProxyFrame

ProxyRemove == \E key \in Range(StateKeys) : Edit(key, Value)

\* a structural copy of a proxy the application holds is stored
ProxyCopy == \E key \in Range(StateKeys), held \in proxy.held : Edit(key, Copy(held.id))

\* a proxy the application holds is stored
ProxyPut == \E key \in Range(StateKeys), held \in proxy.held : Edit(key, held)

\* the runs of colliding candidates tried: none, one less than the tries, all
CollisionRuns == {0, MaxTries - 1, MaxTries}

ProxyRefresh ==
    /\ \E collisions \in CollisionRuns, token \in Tokens, second \in Tokens :
        proxy' = initProxyObjects(proxy, [collisions |-> collisions, token |-> token,
                                          second |-> second])
    /\ ProxyFrame

NextProxy == ProxyInsert \/ ProxyRemove \/ ProxyCopy \/ ProxyPut \/ ProxyRefresh

SpecProxy == InitProxy /\ [][NextProxy]_vars

\* the values of a tree that are not plain objects, each with its key path
RECURSIVE Leaves(_, _)
Leaves(node, path) ==
    IF node.kind = "object"
    THEN UNION {Leaves(node.at[k], path \o <<k>>) : k \in DOMAIN node.at}
    ELSE {[path |-> path, node |-> node]}

\* the table maps the id to a proxy
Registers(table, id) == id \in DOMAIN table /\ table[id].kind = "proxy"

\* the pass that ran last has returned and the state is as it left it
AfterPass == proxy.last # <<>> /\ proxy.clean

\* C25: where the pass found a copy that has only the id, and the table of
\* the pass before maps that id to a proxy, the state now holds that very
\* proxy, whose target is the object it was made for.
C25_CopyResolvesToRegisteredProxy ==
    AfterPass =>
        \A leaf \in Leaves(proxy.last[1].prev, <<>>) :
            (leaf.node.kind = "copy" /\ Registers(proxy.last[1].before, leaf.node.id))
                => /\ NodeAt(proxy.state, leaf.path) = <<proxy.last[1].before[leaf.node.id]>>
                   /\ proxy.last[1].before[leaf.node.id].id = leaf.node.id
                   /\ proxy.last[1].before[leaf.node.id].target.kind = "raw"

\* a production pass has resolved a copy
C25_Witness ==
    /\ AfterPass
    /\ proxy.production
    /\ \E leaf \in Leaves(proxy.last[1].prev, <<>>) :
        /\ leaf.node.kind = "copy"
        /\ Registers(proxy.last[1].before, leaf.node.id)
        /\ NodeAt(proxy.state, leaf.path) = <<proxy.last[1].before[leaf.node.id]>>

\* C26: a pass over a state that was not written since the pass before
\* returned mints no id and leaves the state, with every proxy and its id, as
\* it was.
C26_SecondPassChangesNothing ==
    (AfterPass /\ proxy.last[1].wasClean) =>
        /\ proxy.last[1].minted = {}
        /\ proxy.state = proxy.last[1].prev
        /\ ProxiesIn(proxy.state) = ProxiesIn(proxy.last[1].prev)

\* the pass ran again over a state that holds a proxy
C26_Witness ==
    /\ AfterPass
    /\ proxy.last[1].wasClean
    /\ ProxiesIn(proxy.state) # {}

\* C27: a pass that met a copy whose id is not in the table of the pass
\* before does not return as if nothing had happened: the stale reference is
\* reported to the caller.
C27_StaleReferenceReported ==
    (proxy.last # <<>> /\ proxy.last[1].stale # {}) => proxy.last[1].status # "ok"

\* C28: no two distinct proxies of the state carry the same id; a pass mints
\* no id that a proxy of the state it found carries or that the table it
\* found maps to a proxy; and after a pass the table maps the id of every
\* proxy of the state to that proxy.
C28_TokenNamesOneLiveProxy ==
    /\ \A v, w \in ProxiesIn(proxy.state) : v.id = w.id => v = w
    /\ proxy.last # <<>> =>
        \A id \in proxy.last[1].minted :
            /\ ~Registers(proxy.last[1].before, id)
            /\ \A w \in ProxiesIn(proxy.last[1].prev) : w.id # id
    /\ AfterPass =>
        \A w \in ProxiesIn(proxy.state) : Registers(proxy.table, w.id) /\ proxy.table[w.id] = w

\* C29: generateProxyId returns no id that is in one of the two tables, it
\* tries at most 100 candidates, and it throws only after 100 candidates that
\* were all in a table.
C29_GeneratedIdIsFresh ==
    proxy.last # <<>> =>
        /\ proxy.last[1].taken = {}
        /\ proxy.last[1].tries <= MaxTries
        /\ proxy.last[1].status = "threw" => proxy.last[1].tries = MaxTries

\* one call has returned an id after 99 candidates that were taken, and a
\* call has thrown after 100
C29_Witness ==
    /\ proxy.last # <<>>
    /\ proxy.last[1].tries = MaxTries
    /\ \/ proxy.last[1].status = "threw"
       \/ proxy.last[1].minted # {}

\* C30: in production mode the ids of the table after a pass are exactly the
\* ids of the proxies the pass met, each mapped to a proxy, so the id of a
\* proxy it did not meet is no longer resolved; in the other mode an id that
\* the table mapped to a proxy before the pass is mapped to the same proxy
\* after it.
C30_ProductionForgetsUnmetTokens ==
    (proxy.last # <<>> /\ proxy.last[1].status = "ok") =>
        IF proxy.production
        THEN /\ DOMAIN proxy.table = proxy.last[1].met
             /\ \A id \in proxy.last[1].met : Registers(proxy.table, id)
        ELSE \A id \in DOMAIN proxy.last[1].before :
                Registers(proxy.last[1].before, id)
                    => Registers(proxy.table, id) /\ proxy.table[id] = proxy.last[1].before[id]

(***************************************************************************)
(* Re-entrant sync from an error callback                                  *)
(***************************************************************************)

\* The subscribers that sync(path) calls registered while the error
\* handler of the path was running its notification loop.
Resubscribed == SubSeq(Subscribers(handler.path), Len(handler.atError) + 1,
                       Len(Subscribers(handler.path)))

\* C33: if an error callback called sync(path) again during the handling of
\* a stream error, then when the handling ends sync of the path is enabled
\* and the subscribers registered by those calls are still in the
\* subscriber list, so the path is not sync-enabled with no subscriber.
C33_ResyncInErrorCallbackSurvives ==
    [][(ErrorDone /\ Resubscribed # <<>>) =>
          LET p == handler.path
          IN /\ collections'[p].syncEnabled
             /\ Range(Resubscribed) \subseteq
                    Range(collectionsInfo'[p].collectionSubscribers)]_vars

(***************************************************************************)
(* Invariants of the collections state                                     *)
(***************************************************************************)

\* C34: in every reachable state, a path whose record has syncing = true
\* has syncEnabled = true.
C34_SyncingImpliesSyncEnabled ==
    \A p \in DOMAIN collections :
        collections[p].syncing => collections[p].syncEnabled

\* a path is loading again while its stream error is still being handled
C34_Witness ==
    /\ handler.pc = "notify"
    /\ collections[handler.path].syncing
    /\ collections[handler.path].syncEnabled

\* C35: in every reachable state, a path has a record in collections if and
\* only if it has a bookkeeping entry in collectionsInfo.
C35_RecordIffInfo ==
    \A p \in Paths : HasRecord(Core, p) <=> HasInfo(Core, p)

\* a reset has removed the record and the entry of a path that was synced
C35_Witness ==
    /\ phase = "reset"
    /\ subscriberPath # <<>>
    /\ \A p \in Paths : ~HasRecord(Core, p) /\ ~HasInfo(Core, p)

(***************************************************************************)
(* Nested lists across document changes                                    *)
(***************************************************************************)

\* the list the last change of the event was applied to
BeforeLast ==
    applyCollectionChanges(diff.prev, SubSeq(diff.event, 1, Len(diff.event) - 1),
                           PathOptions("users"))
LastChange == diff.event[Len(diff.event)]

\* documents that carry a plain field "w" the snapshots do not have
WideDocs == [id : DocIds, v : Vals, w : Vals, s : NestedLists]

\* C36: a modified change gives the document the plain fields of the
\* snapshot, and only those, and the nested list "s" the document had before
\* the change, also when oldIndex # newIndex; an added change gives the new
\* document the plain fields of the snapshot and an empty nested list.
C36_ModifiedKeepsNestedLists ==
    /\ diff.event # <<>> =>
          LET ch == LastChange
              doc == diff.list[ch.newIndex + 1]
          IN /\ ch.type = "modified" =>
                   /\ DOMAIN doc = {"id", "v", "s"}
                   /\ doc.id = ch.doc.id /\ doc.v = ch.doc.v
                   /\ doc.s = BeforeLast[ch.oldIndex + 1].s
             /\ ch.type = "added" =>
                   /\ DOMAIN doc = {"id", "v", "s"}
                   /\ doc.id = ch.doc.id /\ doc.v = ch.doc.v
                   /\ doc.s = <<>>
    /\ \A old \in WideDocs, v \in Vals :
          applyDocumentChanges(<<old>>, [id |-> old.id, v |-> v], PathOptions("users"))
              = [id |-> old.id, v |-> v, s |-> old.s]

\* the document with nested documents moved to another index with a new
\* field value
C36_Witness ==
    /\ Len(diff.event) = 1
    /\ LastChange.type = "modified"
    /\ LastChange.oldIndex # LastChange.newIndex
    /\ diff.prev[LastChange.oldIndex + 1].s # <<>>
    /\ diff.prev[LastChange.oldIndex + 1].v # LastChange.doc.v
    /\ diff.list[LastChange.newIndex + 1].s # <<>>

(***************************************************************************)
(* Routing of nested events                                                *)
(***************************************************************************)

\* getObjectFromRefPath finds the list that refPath addresses
RECURSIVE Routed(_, _, _)
Routed(collection, options, refPath) ==
    IF refPath = <<>> THEN TRUE
    ELSE LET i == FindDoc(collection, refPath[1])
             sub == CHOOSE o \in Range(options.subcollections) : o.collectionPath = refPath[2]
         IN /\ i # 0
            /\ sub.name \in DOMAIN collection[i]
            /\ Routed(collection[i][sub.name], sub, SubSeq(refPath, 3, Len(refPath)))

\* the listener that opened the nested listener `path`, and the document it
\* opened it for
ParentOf(path) == SubSeq(path, 1, Len(path) - 2)
OwnerOf(path) == path[Len(path) - 1]

\* C37: a listener that can deliver a nested event (reference path ending
\* in document d and a subcollection) exists only while the listener above
\* it has reported d as added and not as removed, and the mirrored list
\* then holds the document chain of the reference path, so every nested
\* event is routed to a document of the mirrored list.
C37_NestedEventsAreRouted ==
    \A path \in DOMAIN tree.listeners :
        (path # <<>> /\ tree.listeners[path].alive) =>
            /\ ParentOf(path) \in DOMAIN tree.listeners
            /\ ~tree.listeners[ParentOf(path)].fresh
            /\ \E i \in DOMAIN tree.listeners[ParentOf(path)].view :
                    tree.listeners[ParentOf(path)].view[i].id = OwnerOf(path)
            /\ Routed(tree.list, TreeOptions, path)

\* a listener two levels down has delivered an event that was applied to the
\* nested list of a nested document
C37_Witness ==
    /\ <<"a", "s", "x", "t">> \in DOMAIN tree.listeners
    /\ tree.listeners[<<"a", "s", "x", "t">>].alive
    /\ tree.listeners[<<"a", "s", "x", "t">>].view # <<>>
    /\ \E i \in DOMAIN tree.list :
          /\ tree.list[i].id = "a"
          /\ tree.list[i].items # <<>>
          /\ tree.list[i].items[1].t # <<>>

(***************************************************************************)
(* js/proxy.ts: the traps of a wrapper                                     *)
(***************************************************************************)
\* A JavaScript object is [own, class]: its own properties and the class
\* whose prototype it inherits from before Object.prototype. Property values
\* are records, so that values of different types can be compared.
proxyIdProperty == "__proxy_id"
proxyTargetSymbol == "Symbol(proxy value)"

Number(n) == [kind |-> "number", v |-> n]
String(s) == [kind |-> "string", v |-> s]
Builtin(name) == [kind |-> "function", f |-> name]

\* the properties of Object.prototype (one of them stands for all)
ObjectPrototype == [toString |-> Builtin("Object.prototype.toString")]

\* the prototype of a class: Date overrides toString
ClassPrototype(class) ==
    IF class = "Date" THEN [toString |-> Builtin("Date.prototype.toString")] ELSE Empty

\* `property in o`: own or inherited
In(property, o) ==
    \/ property \in DOMAIN o.own
    \/ property \in DOMAIN ClassPrototype(o.class)
    \/ property \in DOMAIN ObjectPrototype

\* `o[property]`: the own property, else the nearest inherited one
Read(o, property) ==
    IF property \in DOMAIN o.own THEN o.own[property]
    ELSE IF property \in DOMAIN ClassPrototype(o.class) THEN ClassPrototype(o.class)[property]
    ELSE IF property \in DOMAIN ObjectPrototype THEN ObjectPrototype[property]
    ELSE Undefined

\* `o[property] = value` on an ordinary extensible object
Write(o, property, value) == [o EXCEPT !.own = Put(@, property, value)]

\* createNonEnumerableProxy, lines 14-17: an object literal
proxyProps(W) ==
    [own |-> Put(Put(Empty, proxyTargetSymbol, W.obj), proxyIdProperty, String(W.id)),
     class |-> "Object"]

proxyPublicProps == {proxyIdProperty}

\* the get trap
get(W, property) ==
    IF In(property, proxyProps(W)) THEN Read(proxyProps(W), property)
    ELSE Read(W.obj, property)

\* the set trap: [ok, obj], the value it returns and the original object after
set(W, property, value) ==
    IF In(property, proxyProps(W)) THEN [ok |-> FALSE, obj |-> W.obj]
    ELSE [ok |-> TRUE, obj |-> Write(W.obj, property, value)]

\* the ownKeys trap
ownKeys(W) == <<proxyIdProperty>>

\* the has trap
has(W, property) == property \in proxyPublicProps

\* the getOwnPropertyDescriptor trap; <<>> for undefined
getOwnPropertyDescriptor(W, property) ==
    IF property \in proxyPublicProps
    THEN <<[configurable |-> TRUE, enumerable |-> TRUE, writable |-> FALSE,
            value |-> Read(proxyProps(W), property)]>>
    ELSE IF property \in DOMAIN W.obj.own
    THEN <<[configurable |-> TRUE, enumerable |-> TRUE, writable |-> TRUE,
            value |-> W.obj.own[property]]>>
    ELSE <<>>

\* a structural copy of the wrapper ({...w}, JSON, a deep clone): the keys of
\* ownKeys whose descriptor is enumerable, each read through the get trap
StructuralCopy(W) ==
    LET keys == {k \in Range(ownKeys(W)) :
                    /\ getOwnPropertyDescriptor(W, k) # <<>>
                    /\ getOwnPropertyDescriptor(W, k)[1].enumerable}
    IN [k \in keys |-> get(W, k)]

\* ------------------------------------------------ the wrapper specification
\* One object wrapped by createNonEnumerableProxy(obj, id), and the reads,
\* writes and copies made through the wrapper. `last` records the last
\* operation: its property, the value written, its result, and the object and
\* the token before it.
WrapperKeys == {proxyIdProperty, proxyTargetSymbol, "x", "toString"}
OrdinaryKeys == {"x", "toString"}
Written == {Number(0), Number(1)}
Classes == {"Object", "Date"}

WrapperFrame ==
    UNCHANGED <<collections, collectionsInfo, listeners, watchers,
                subscriberPath, timers, queued, handler, phase, diff, tree,
                mirror, compiler, plugin, proxy, store>>

InitWrapper ==
    /\ collections = Empty
    /\ collectionsInfo = Empty
    /\ listeners = Empty
    /\ watchers = Empty
    /\ subscriberPath = <<>>
    /\ timers = <<>>
    /\ queued = <<>>
    /\ handler = Idle
    /\ phase = "init"
    /\ diff = NoDiff
    /\ tree = NoTree
    /\ mirror = NoMirror
    /\ compiler = NoCompiler
    /\ plugin = NoPlugin
    /\ proxy = NoProxy
    /\ store = NoStore
    /\ \E id \in Tokens, class \in Classes, keys \in SUBSET OrdinaryKeys :
          wrapper = [id |-> id,
                     obj |-> [own |-> [k \in keys |-> Number(0)], class |-> class],
                     last |-> <<>>]

Done(op, property, value, result) ==
    <<[op |-> op, property |-> property, value |-> value, result |-> result,
       obj |-> wrapper.obj, id |-> wrapper.id]>>

\* w[property]
WrapperGet(property) ==
    /\ wrapper' = [wrapper EXCEPT
                      !.last = Done("get", property, Undefined, get(wrapper, property))]
    /\ WrapperFrame

\* w[property] = value
WrapperSet(property, value) ==
    /\ wrapper' = [wrapper EXCEPT
                      !.obj = set(wrapper, property, value).obj,
                      !.last = Done("set", property, value,
                                    [kind |-> "boolean", v |-> set(wrapper, property, value).ok])]
    /\ WrapperFrame

\* a structural copy of w is taken
WrapperCopy ==
    /\ wrapper' = [wrapper EXCEPT
                      !.last = Done("copy", "", Undefined, StructuralCopy(wrapper))]
    /\ WrapperFrame

NextWrapper ==
    \/ \E property \in WrapperKeys : WrapperGet(property)
    \/ \E property \in WrapperKeys, value \in Written : WrapperSet(property, value)
    \/ WrapperCopy

SpecWrapper == InitWrapper /\ [][NextWrapper]_vars

ReservedKeys == {proxyIdProperty, proxyTargetSymbol}

\* C31: through a wrapper, a read of the token key returns the token and a
\* read of the target marker returns the original object; a write to either
\* reserved key is rejected and changes neither the token nor the original
\* object; a read of any other key returns what the original object has for
\* that key and a write of any other key sets that key of the original
\* object; a structural copy holds the token key and nothing else.
C31_WrapperForwardsAllButReservedKeys ==
    wrapper.last # <<>> =>
        LET l == wrapper.last[1]
        IN /\ wrapper.id = l.id
           /\ (l.op = "get" /\ l.property = proxyIdProperty) => l.result = String(l.id)
           /\ (l.op = "get" /\ l.property = proxyTargetSymbol) => l.result = l.obj
           /\ (l.op = "get" /\ l.property \notin ReservedKeys) =>
                  /\ l.result = Read(l.obj, l.property)
                  /\ wrapper.obj = l.obj
           /\ (l.op = "set" /\ l.property \in ReservedKeys) =>
                  /\ ~l.result.v
                  /\ wrapper.obj = l.obj
           /\ (l.op = "set" /\ l.property \notin ReservedKeys) =>
                  /\ l.result.v
                  /\ wrapper.obj = Write(l.obj, l.property, l.value)
           /\ l.op = "copy" =>
                  /\ l.result = [k \in {proxyIdProperty} |-> String(l.id)]
                  /\ wrapper.obj = l.obj

(***************************************************************************)
(* The mutation subscriber of a module                                     *)
(***************************************************************************)
\* Strings are sequences of characters here, because the subscriber cuts the
\* mutation type by length. A module of the store is [namespace, namespaced,
\* mutations]: its namespace, module.namespaced, and the keys of
\* module.mutations (the declared mutation names).
MaxCommits == 2

Slash == <<"/">>
Namespaces == {<<"a", "b">>, <<"c", "d">>, <<"e">>}
MutationNames == {<<"i", "n", "c">>, <<"d", "e", "c">>}

\* String.prototype.substring(start)
substring(s, start) == SubSeq(s, Min(start, Len(s)) + 1, Len(s))

\* line 250: this.module.namespaced ? this.namespacePrefix : ""
mutationPrefix(m) == IF m.namespaced THEN m.namespace \o Slash ELSE <<>>

\* lines 249-257: does the subscriber of module m call initProxyObjects for a
\* committed mutation of this type?
subscriber(m, type) ==
    LET unprefixedMutation == substring(type, Len(mutationPrefix(m)))
    IN unprefixedMutation \in m.mutations

\* the types under which the store registers the mutations of module m, a
\* child of the root: prefixed with its namespace if it is namespaced
RegisteredTypes(m) == {mutationPrefix(m) \o name : name \in m.mutations}

StoreFrame ==
    UNCHANGED <<collections, collectionsInfo, listeners, watchers,
                subscriberPath, timers, queued, handler, phase, diff, tree,
                mirror, compiler, plugin, proxy, wrapper>>

\* two bootstrapped modules with different namespaces
InitStore ==
    /\ collections = Empty
    /\ collectionsInfo = Empty
    /\ listeners = Empty
    /\ watchers = Empty
    /\ subscriberPath = <<>>
    /\ timers = <<>>
    /\ queued = <<>>
    /\ handler = Idle
    /\ phase = "init"
    /\ diff = NoDiff
    /\ tree = NoTree
    /\ mirror = NoMirror
    /\ compiler = NoCompiler
    /\ plugin = NoPlugin
    /\ proxy = NoProxy
    /\ wrapper = NoWrapper
    /\ \E mods \in [ModuleIds -> [namespace : Namespaces, namespaced : BOOLEAN,
                                   mutations : SUBSET MutationNames \ {{}}]] :
          /\ \A a, b \in ModuleIds : a # b => mods[a].namespace # mods[b].namespace
          /\ store = [mods |-> mods, commits |-> 0,
                      refreshes |-> [m \in ModuleIds |-> 0], last |-> <<>>]

\* store.commit(type) of a registered mutation: the handlers registered under
\* the type run, then every subscriber is called with the mutation; the
\* subscriber of a module calls initProxyObjects or returns. `refreshes`
\* counts the initProxyObjects calls of each module.
StoreCommit(type) ==
    /\ store.commits < MaxCommits
    /\ type \in UNION {RegisteredTypes(store.mods[m]) : m \in ModuleIds}
    /\ LET handled == {m \in ModuleIds : type \in RegisteredTypes(store.mods[m])}
           refreshed == {m \in ModuleIds : subscriber(store.mods[m], type)}
       IN store' = [store EXCEPT
                       !.commits = @ + 1,
                       !.refreshes = [m \in ModuleIds |->
                                         IF m \in refreshed THEN @[m] + 1 ELSE @[m]],
                       !.last = <<[type |-> type, handled |-> handled,
                                   refreshed |-> refreshed]>>]
    /\ StoreFrame

NextStore ==
    \E prefix \in {<<>>} \cup {n \o Slash : n \in Namespaces}, name \in MutationNames :
        StoreCommit(prefix \o name)

SpecStore == InitStore /\ [][NextStore]_vars

\* C32: after a commit, the modules whose subscriber called the refresh are
\* exactly the modules that declare the committed mutation (the modules whose
\* handler the store ran for it); the subscriber of any other module did
\* not refresh, whatever its namespace and its declared names are.
C32_RefreshOnOwnMutationsOnly ==
    store.last # <<>> => store.last[1].refreshed = store.last[1].handled

====
